---- MODULE Spec2Model ----
(***************************************************************************)
(* Model of the deterministic core of fair_llm_tutor:                      *)
(*   - TutorManagerAgent.detect_mode / has_answer_content                  *)
(*     (src/agents/manager_agent.py)                                       *)
(*   - TutorSession.process_student_work and interactive_loop              *)
(*     (src/main.py)                                                       *)
(*   - the '|||' record parsing of the three tools                         *)
(*     (src/tools/diagnostic_tools.py, pedagogical_tools.py,               *)
(*      safety_tools.py) and the serializer build_tool_input               *)
(*     (src/tests/conftest.py)                                             *)
(* Strings are sequences of one-character strings, so that strip, lower,   *)
(* upper, split, startswith and the regular expressions are computed       *)
(* character by character as Python computes them.                         *)
(***************************************************************************)
EXTENDS Integers, Sequences, FiniteSets, TLC

VARIABLES
    pc,             \* "start" before the call, "done" after it returned, "raised" if it raised
    op,             \* the operation that ran
    user_input,     \* argument of detect_mode / has_answer_content / student_work
    hint_score,     \* detect_mode's local at the decision
    concept_score,  \* detect_mode's local at the decision
    detected_mode,  \* detect_mode's return value ("None" for None)
    has_answer,     \* has_answer_content's return value
    request,        \* the request process_student_work hands to runner.arun
    tool_input,     \* argument of a tool's use()
    tool_output,    \* the string use() returned, as a sequence of words
    parsed,         \* the locals a tool's parsing loop ends with
    hint_level,     \* _generate_socratic_hint's hint_level (0: not computed)
    collab,         \* calls made to the collaborators (retriever, llm)
    fields,         \* the <<key, value>> pairs handed to build_tool_input
    classified,     \* the calls of detect_mode so far: argument and value returned
    current_topic,  \* interactive_loop's local
    current_problem,\* interactive_loop's local (NoneText for None)
    entered         \* the lines input() has returned so far

vars == <<pc, op, user_input, hint_score, concept_score, detected_mode,
          has_answer, request, tool_input, tool_output, parsed, hint_level,
          collab, fields, classified, current_topic, current_problem, entered>>

toolVars == <<tool_input, tool_output, parsed, hint_level, collab, fields>>
modeVars == <<user_input, hint_score, concept_score, detected_mode, has_answer,
              request, classified>>
loopVars == <<current_topic, current_problem, entered>>

-----------------------------------------------------------------------------
(* Characters                                                              *)

LowerSeq == <<"a","b","c","d","e","f","g","h","i","j","k","l","m",
              "n","o","p","q","r","s","t","u","v","w","x","y","z">>
UpperSeq == <<"A","B","C","D","E","F","G","H","I","J","K","L","M",
              "N","O","P","Q","R","S","T","U","V","W","X","Y","Z">>

LowerLetters == {LowerSeq[i] : i \in DOMAIN LowerSeq}
UpperLetters == {UpperSeq[i] : i \in DOMAIN UpperSeq}
Letters      == LowerLetters \cup UpperLetters
Digits       == {"0","1","2","3","4","5","6","7","8","9"}
Whitespace   == {" ", "\n", "\t"}
\* a letter outside ASCII: a word character for \b, no [a-zA-Z], and its
\* own lower case
NonAsciiLetters == {"é"}
WordChars    == Letters \cup Digits \cup {"_"} \cup NonAsciiLetters

\* str.lower() / str.upper() on one character
ToLower == [c \in UpperLetters |->
               LowerSeq[CHOOSE i \in DOMAIN UpperSeq : UpperSeq[i] = c]]
ToUpper == [c \in LowerLetters |->
               UpperSeq[CHOOSE i \in DOMAIN LowerSeq : LowerSeq[i] = c]]
LowerCh(c) == IF c \in UpperLetters THEN ToLower[c] ELSE c
UpperCh(c) == IF c \in LowerLetters THEN ToUpper[c] ELSE c

Lower(s) == [i \in DOMAIN s |-> LowerCh(s[i])]
Upper(s) == [i \in DOMAIN s |-> UpperCh(s[i])]

\* str.strip(chars): drop leading and trailing characters of chars
RECURSIVE FirstNotIn(_, _, _)
FirstNotIn(s, i, chars) == IF i <= Len(s) /\ s[i] \in chars
                           THEN FirstNotIn(s, i + 1, chars) ELSE i
RECURSIVE LastNotIn(_, _, _)
LastNotIn(s, j, chars) == IF j >= 1 /\ s[j] \in chars
                          THEN LastNotIn(s, j - 1, chars) ELSE j
StripChars(s, chars) == SubSeq(s, FirstNotIn(s, 1, chars), LastNotIn(s, Len(s), chars))

\* str.strip(): drop leading and trailing whitespace
Strip(s) == StripChars(s, Whitespace)

\* concatenation of a sequence of strings
RECURSIVE Concat(_)
Concat(ss) == IF ss = <<>> THEN <<>> ELSE Head(ss) \o Concat(Tail(ss))

\* character of s at position i, "" outside the string
At(s, i) == IF i \in DOMAIN s THEN s[i] ELSE ""

\* the literal lit occurs in s at position i
LitAt(s, i, lit) ==
    /\ i >= 1
    /\ i + Len(lit) - 1 <= Len(s)
    /\ (lit = <<>> \/ s[i] = lit[1])
    /\ \A k \in DOMAIN lit : s[i + k - 1] = lit[k]

\* str.startswith / str.endswith / substring test (x in s)
StartsWith(s, lit) == LitAt(s, 1, lit)
EndsWith(s, lit)   == LitAt(s, Len(s) - Len(lit) + 1, lit)
Contains(s, lit)   == \E i \in 1..(Len(s) + 1) : LitAt(s, i, lit)

-----------------------------------------------------------------------------
(* Regular expressions of manager_agent.py, matched as re.search does:     *)
(* try every start position, consume greedily from left to right.          *)

\* \b between positions i-1 and i
WordBoundary(s, i) == (At(s, i - 1) \in WordChars) # (At(s, i) \in WordChars)

\* position after the longest run of characters of class cls starting at i
RECURSIVE SkipClass(_, _, _)
SkipClass(s, i, cls) == IF At(s, i) \in cls THEN SkipClass(s, i + 1, cls) ELSE i

\* re.search(r"\b<lit>\b", s)
SearchWord(s, lit) ==
    \E i \in 1..Len(s) :
        /\ WordBoundary(s, i)
        /\ LitAt(s, i, lit)
        /\ WordBoundary(s, i + Len(lit))

\* re.search(r"\d", s)
SearchDigit(s) == \E i \in 1..Len(s) : s[i] \in Digits

\* re.search(r"\d+[a-zA-Z]+(?:/[a-zA-Z]+)?", s): without the \s*
SearchNumberUnits_NoSpace(s) ==
    \E i \in 1..Len(s) :
        /\ s[i] \in Digits
        /\ At(s, SkipClass(s, i, Digits)) \in Letters

\* re.search(r"\d+\s*[a-zA-Z]+(?:/[a-zA-Z]+)?", s)
SearchNumberUnits(s) ==
    \E i \in 1..Len(s) :
        /\ s[i] \in Digits
        /\ LET afterDigits == SkipClass(s, i, Digits)
               afterSpace  == SkipClass(s, afterDigits, Whitespace)
           IN  At(s, afterSpace) \in Letters

\* re.search(r"=\s*-?\d+", s)
SearchEqualsNumber(s) ==
    \E i \in 1..Len(s) :
        /\ s[i] = "="
        /\ LET afterSpace == SkipClass(s, i + 1, Whitespace)
               afterMinus == IF At(s, afterSpace) = "-" THEN afterSpace + 1
                             ELSE afterSpace
           IN  At(s, afterMinus) \in Digits

\* re.search(r"\d+\s*[+\-*/]\s*\d+", s)
SearchArithmetic(s) ==
    \E i \in 1..Len(s) :
        /\ s[i] \in Digits
        /\ LET afterDigits == SkipClass(s, i, Digits)
               afterSpace  == SkipClass(s, afterDigits, Whitespace)
           IN  /\ At(s, afterSpace) \in {"+", "-", "*", "/"}
               /\ At(s, SkipClass(s, afterSpace + 1, Whitespace)) \in Digits

W_i_got          == <<"i"," ","g","o","t">>
W_the_answer     == <<"t","h","e"," ","a","n","s","w","e","r">>
W_my_answer      == <<"m","y"," ","a","n","s","w","e","r">>
W_answer_is      == <<"a","n","s","w","e","r"," ","i","s">>

\* lines 69-70
concept_patterns ==
    << <<"w","h","a","t"," ","i","s">>,
       <<"h","o","w"," ","d","o">>,
       <<"e","x","p","l","a","i","n">>,
       <<"h","e","l","p"," ","m","e">>,
       <<"c","a","n"," ","y","o","u">>,
       <<"w","h","y">> >>
\* hint_patterns without 'i got'
hint_patterns_NoIGot ==
    << <<"m","y"," ","a","n","s","w","e","r"," ","i","s">>,
       <<"i"," ","c","a","l","c","u","l","a","t","e","d">> >>

\* line 77
hint_patterns ==
    << <<"m","y"," ","a","n","s","w","e","r"," ","i","s">>,
       W_i_got,
       <<"i"," ","c","a","l","c","u","l","a","t","e","d">> >>
\* line 83
help_seeking ==
    { <<"c","o","n","f","u","s","e","d">>,
       <<"s","t","u","c","k">>,
       <<"n","o"," ","i","d","e","a">>,
       <<"l","o","s","t">>,
       <<"a"," ","q","u","e","s","t","i","o","n">> }

\* re.search(r"\bi got\s+(?:confused|stuck|no idea|lost|a question)\b", s)
SearchIGotHelp(s) ==
    \E i \in 1..Len(s) :
        /\ WordBoundary(s, i)
        /\ LitAt(s, i, W_i_got)
        /\ LET afterGot   == i + Len(W_i_got)
               afterSpace == SkipClass(s, afterGot, Whitespace)
           IN  /\ afterSpace > afterGot
               /\ \E w \in help_seeking :
                     /\ LitAt(s, afterSpace, w)
                     /\ WordBoundary(s, afterSpace + Len(w))

\* number of patterns of the list pats found in s (the += 1 loops)
CountMatches(s, pats) == Cardinality({k \in DOMAIN pats : SearchWord(s, pats[k])})

B2N(b) == IF b THEN 1 ELSE 0

-----------------------------------------------------------------------------
(* TutorManagerAgent.detect_mode                                           *)

\* concept_score after lines 65-73 and the cancellation's += 1 (line 86)
ConceptScoreOf(text) ==
      B2N(EndsWith(text, <<"?">>))
    + CountMatches(text, concept_patterns)
    + B2N(SearchWord(text, W_i_got) /\ SearchIGotHelp(text))

\* HintScoreOf without the cancellation's -= 1
HintScoreOf_NoCancel(text) ==
      CountMatches(text, hint_patterns)
    + B2N(SearchNumberUnits(text))
    + B2N(SearchEqualsNumber(text))
    + B2N(SearchArithmetic(text))

\* hint_score after lines 75-95
HintScoreOf(text) ==
      CountMatches(text, hint_patterns)
    - B2N(SearchWord(text, W_i_got) /\ SearchIGotHelp(text))
    + B2N(SearchNumberUnits(text))
    + B2N(SearchEqualsNumber(text))
    + B2N(SearchArithmetic(text))

\* Decide with every tie answered None
Decide_TieNone(hs, cs) ==
    IF hs > cs THEN "HINT"
    ELSE IF cs > hs THEN "CONCEPT_EXPLANATION"
    ELSE "None"

\* Decide with a fourth value for the tie at 0
Decide_TieUndecided(hs, cs) ==
    IF hs > cs THEN "HINT"
    ELSE IF cs > hs THEN "CONCEPT_EXPLANATION"
    ELSE IF hs > 0 THEN "HINT"
    ELSE "UNDECIDED"

\* lines 97-104
Decide(hs, cs) ==
    IF hs > cs THEN "HINT"
    ELSE IF cs > hs THEN "CONCEPT_EXPLANATION"
    ELSE IF hs > 0 THEN "HINT"
    ELSE "None"

\* the text detect_mode scores: user_input.strip().lower()
NormalizedText(input) == Lower(Strip(input))

\* lines 60-61: the early return
IsBlank(input) == input = <<>> \/ Strip(input) = <<>>

\* detect_mode answering HINT on its early return
detect_mode_BlankIsHint(input) ==
    IF IsBlank(input) THEN "HINT"
    ELSE Decide(HintScoreOf(NormalizedText(input)),
                ConceptScoreOf(NormalizedText(input)))

detect_mode(input) ==
    IF IsBlank(input) THEN "None"
    ELSE Decide(HintScoreOf(NormalizedText(input)),
                ConceptScoreOf(NormalizedText(input)))

-----------------------------------------------------------------------------
(* TutorManagerAgent.has_answer_content                                    *)

\* has_answer_content without the early return on texts with no digit
has_answer_content_NoDigitCheck(text) ==
    IF text = <<>> THEN FALSE
    ELSE LET t == Lower(text)
         IN  \/ SearchWord(t, W_the_answer)
             \/ SearchWord(t, W_my_answer)
             \/ SearchWord(t, W_answer_is)
             \/ SearchEqualsNumber(t)
             \/ SearchNumberUnits(t)

has_answer_content(text) ==
    IF text = <<>> THEN FALSE
    ELSE LET t == Lower(text)
         IN  IF ~SearchDigit(t) THEN FALSE
             ELSE \/ SearchWord(t, W_the_answer)
                  \/ SearchWord(t, W_my_answer)
                  \/ SearchWord(t, W_answer_is)
                  \/ SearchEqualsNumber(t)
                  \/ SearchNumberUnits(t)

-----------------------------------------------------------------------------
(* TutorSession.process_student_work                                       *)

\* A request is a sequence of pieces: literal text of the f-strings, or one
\* of the interpolated arguments.
Lit(s) == [kind |-> "lit", s |-> s, t |-> <<>>]
Txt(t) == [kind |-> "txt", s |-> "", t |-> t]

ModeLine    == "PREPROCESSOR DETECTED MODE: "
WarningLine == "PREPROCESSOR WARNING: Answer-like content detected. SafetyGuard REQUIRED."

\* lines 221-227
BaseRequest(problem_text, student_work, topic) ==
    << Lit("PROBLEM: "), Txt(problem_text), Lit("\n\n"),
       Lit("STUDENT WORK: "), Txt(student_work), Lit("\n\n"),
       Lit("TOPIC: "), Txt(topic), Lit("\n\n"),
       Lit("Please analyze the student's work, identify any misconceptions, and provide an appropriate hint or concept explanation. Remember: NEVER reveal the answer!") >>

\* Prefix without the warning
Prefix_NoWarning(mode, student_work) == << Lit(ModeLine), Lit(mode) >>

\* Prefix with the warning appended in every mode
Prefix_AnyMode(mode, student_work) ==
    << Lit(ModeLine), Lit(mode) >>
    \o (IF has_answer_content(student_work)
        THEN << Lit("\n"), Lit(WarningLine) >>
        ELSE << >>)

\* lines 232-238
Prefix(mode, student_work) ==
    << Lit(ModeLine), Lit(mode) >>
    \o (IF mode = "CONCEPT_EXPLANATION" /\ has_answer_content(student_work)
        THEN << Lit("\n"), Lit(WarningLine) >>
        ELSE << >>)

\* BuildRequest prepending the mode line whatever detect_mode returned
BuildRequest_AlwaysPrefix(problem_text, student_work, topic) ==
    LET mode == detect_mode(student_work)
        base == BaseRequest(problem_text, student_work, topic)
    IN  Prefix(mode, student_work) \o << Lit("\n\n") >> \o base

\* lines 221-239: the request handed to runner.arun
BuildRequest(problem_text, student_work, topic) ==
    LET mode == detect_mode(student_work)
        base == BaseRequest(problem_text, student_work, topic)
    IN  IF mode # "None"
        THEN Prefix(mode, student_work) \o << Lit("\n\n") >> \o base
        ELSE base

-----------------------------------------------------------------------------
(* The '|||' record format shared by the three tools                       *)

\* the delimiter with the blanks of build_tool_input around it
Delim_WithBlanks == <<" ","|","|","|"," ">>

Delim == <<"|","|","|">>

\* str.split("|||"): cut at every occurrence, left to right
RECURSIVE SplitAt(_, _)
SplitAt(s, i) ==
    IF i + Len(Delim) - 1 > Len(s) THEN << s >>
    ELSE IF LitAt(s, i, Delim)
         THEN << SubSeq(s, 1, i - 1) >>
              \o SplitAt(SubSeq(s, i + Len(Delim), Len(s)), 1)
         ELSE SplitAt(s, i + 1)
Split(s) == SplitAt(s, 1)

\* what follows the last colon of part (rsplit in place of split)
RECURSIVE LastColon(_, _)
LastColon(part, i) ==
    IF i < 1 \/ part[i] = ":" THEN i ELSE LastColon(part, i - 1)
AfterColon_LastColon(part) == SubSeq(part, LastColon(part, Len(part)) + 1, Len(part))

\* part.split(":", 1)[1]: what follows the first colon of part
RECURSIVE FirstColon(_, _)
FirstColon(part, i) ==
    IF i > Len(part) \/ part[i] = ":" THEN i ELSE FirstColon(part, i + 1)
AfterColon(part) == SubSeq(part, FirstColon(part, 1) + 1, Len(part))

\* part.split(":")[1].strip(): without the maxsplit, what lies between the
\* first colon and the second
Value_NoMaxsplit(part) ==
    LET rest == AfterColon(part)
    IN  Strip(SubSeq(rest, 1, FirstColon(rest, 1) - 1))

\* part.split(":", 1)[1].strip()
Value(part) == Strip(AfterColon(part))

\* upper.startswith("<NAME>:"), for upper = part.upper()
HasPrefix(upper, name) == StartsWith(upper, name \o <<":">>)

F_MODE              == <<"M","O","D","E">>
F_PROBLEM           == <<"P","R","O","B","L","E","M">>
F_STUDENT_WORK      == <<"S","T","U","D","E","N","T","_","W","O","R","K">>
F_MISCONCEPTION     == <<"M","I","S","C","O","N","C","E","P","T","I","O","N">>
F_SEVERITY          == <<"S","E","V","E","R","I","T","Y">>
F_TOPIC             == <<"T","O","P","I","C">>
F_CONCEPT           == <<"C","O","N","C","E","P","T">>
F_QUESTION          == <<"Q","U","E","S","T","I","O","N">>
F_HINT_LEVEL        == <<"H","I","N","T","_","L","E","V","E","L">>
F_CORRECT_ANSWER    == <<"C","O","R","R","E","C","T","_","A","N","S","W","E","R">>
F_STUDENT_HISTORY   == <<"S","T","U","D","E","N","T","_","H","I","S","T","O","R","Y">>
F_PROPOSED_RESPONSE == <<"P","R","O","P","O","S","E","D","_","R","E","S","P","O","N","S","E">>

\* conftest.build_tool_input: " ||| ".join(f"{key}: {value}"), for a
\* sequence of <<key, value>> pairs
RECURSIVE Join(_, _)
Join(segs, sep) ==
    IF segs = <<>> THEN <<>>
    ELSE IF Len(segs) = 1 THEN segs[1]
    ELSE segs[1] \o sep \o Join(Tail(segs), sep)

Segment(key, value) == key \o <<":", " ">> \o value

build_tool_input(pairs) ==
    Join([i \in DOMAIN pairs |-> Segment(pairs[i][1], pairs[i][2])],
         <<" ">> \o Delim \o <<" ">>)

\* int(s) of Python: optional sign, digits, single underscores between digits
DigitSeq == <<"0","1","2","3","4","5","6","7","8","9">>
DigitValue(c) == (CHOOSE i \in DOMAIN DigitSeq : DigitSeq[i] = c) - 1

Unsigned(s) == IF s # <<>> /\ Head(s) \in {"+", "-"} THEN Tail(s) ELSE s

IsIntLiteral(s) ==
    LET b == Unsigned(Strip(s))
    IN  /\ b # <<>>
        /\ b[1] \in Digits
        /\ b[Len(b)] \in Digits
        /\ \A i \in DOMAIN b : b[i] \in Digits \cup {"_"}
        /\ \A i \in 1..(Len(b) - 1) : ~(b[i] = "_" /\ b[i + 1] = "_")

RECURSIVE Magnitude(_, _)
Magnitude(b, acc) ==
    IF b = <<>> THEN acc
    ELSE IF Head(b) = "_" THEN Magnitude(Tail(b), acc)
    ELSE Magnitude(Tail(b), 10 * acc + DigitValue(Head(b)))

IntValue(s) ==
    LET t == Strip(s)
    IN  IF t # <<>> /\ Head(t) = "-" THEN 0 - Magnitude(Unsigned(t), 0)
        ELSE Magnitude(Unsigned(t), 0)

\* an optional int: None, or a value
NoneInt    == [none |-> TRUE, value |-> 0]
SomeInt(n) == [none |-> FALSE, value |-> n]

Min(a, b) == IF a < b THEN a ELSE b
Max(a, b) == IF a > b THEN a ELSE b

-----------------------------------------------------------------------------
(* Collaborators: the retriever and the LLM are outside the program; a     *)
(* call either returns or raises.  collab records the calls made.          *)

RetrieverOutcomes == {"docs", "raises"}
LLMOutcomes       == {"responds", "raises"}

RetrieveCall(kw) == [callee |-> "retriever.retrieve", kw |-> kw]
InvokeCall       == [callee |-> "llm.invoke", kw |-> ""]

\* response.content of a hint or explanation request
HintResponse == <<"T","h","i","n","k"," ","a","b","o","u","t"," ","t","h","e"," ","s","i","g","n",".">>

\* what use() did: returned a string (pc "done") or let an exception out
\* (pc "raised"), the locals of its parsing loop, the hint level it chose
\* and the collaborator calls it made
Returned(out, locals, level, calls) ==
    [pc |-> "done", out |-> out, parsed |-> locals, level |-> level, calls |-> calls]
Raised(locals, level, calls) ==
    [pc |-> "raised", out |-> <<>>, parsed |-> locals, level |-> level, calls |-> calls]

\* decimal digits of an integer, as str(n) in an f-string
RECURSIVE NatChars(_)
NatChars(n) == IF n < 10 THEN << DigitSeq[n + 1] >>
               ELSE NatChars(n \div 10) \o << DigitSeq[(n % 10) + 1] >>
IntChars(n) == IF n < 0 THEN <<"-">> \o NatChars(0 - n) ELSE NatChars(n)

\* `word in text` for a returned string: the word is one of its literal
\* pieces or occurs inside one of its interpolated texts
OutputContains(out, word, wordChars) ==
    \E i \in DOMAIN out :
        \/ out[i].kind = "lit" /\ out[i].s = word
        \/ out[i].kind = "txt" /\ Contains(out[i].t, wordChars)

-----------------------------------------------------------------------------
(* SocraticHintGeneratorTool (pedagogical_tools.py)                        *)

\* HintDefaults with an empty default severity
HintDefaults_NoSeverity ==
    [ mode |-> "HINT", problem |-> <<>>, student_work |-> <<>>,
      misconception |-> <<>>, severity |-> <<>>, topic |-> <<>>,
      concept |-> <<>>, question |-> <<>>, hint_level_override |-> NoneInt ]

\* lines 34-43: the locals before the loop
HintDefaults ==
    [ mode |-> "HINT", problem |-> <<>>, student_work |-> <<>>,
      misconception |-> <<>>, severity |-> <<"M","i","n","o","r">>, topic |-> <<>>,
      concept |-> <<>>, question |-> <<>>, hint_level_override |-> NoneInt ]

\* lines 46-71: one iteration of the loop
HintParsePart(acc, rawPart) ==
    LET part  == Strip(rawPart)
        upper == Upper(part)
    IN  IF HasPrefix(upper, F_MODE)
        THEN [acc EXCEPT !.mode =
                 IF Contains(Upper(Value(part)), <<"C","O","N","C","E","P","T">>)
                 THEN "CONCEPT_EXPLANATION" ELSE "HINT"]
        ELSE IF HasPrefix(upper, F_PROBLEM)
        THEN [acc EXCEPT !.problem = Value(part)]
        ELSE IF HasPrefix(upper, F_STUDENT_WORK)
        THEN [acc EXCEPT !.student_work = Value(part)]
        ELSE IF HasPrefix(upper, F_MISCONCEPTION)
        THEN [acc EXCEPT !.misconception = Value(part)]
        ELSE IF HasPrefix(upper, F_SEVERITY)
        THEN [acc EXCEPT !.severity = Value(part)]
        ELSE IF HasPrefix(upper, F_TOPIC)
        THEN [acc EXCEPT !.topic = Value(part)]
        ELSE IF HasPrefix(upper, F_CONCEPT)
        THEN [acc EXCEPT !.concept = Value(part)]
        ELSE IF HasPrefix(upper, F_QUESTION)
        THEN [acc EXCEPT !.question = Value(part)]
        ELSE IF HasPrefix(upper, F_HINT_LEVEL)
        THEN [acc EXCEPT !.hint_level_override =
                 IF IsIntLiteral(Value(part))
                 THEN SomeInt(IntValue(Value(part))) ELSE NoneInt]
        ELSE acc

\* lines 33-71
RECURSIVE HintParseLoop(_, _)
HintParseLoop(acc, parts) ==
    IF parts = <<>> THEN acc
    ELSE HintParseLoop(HintParsePart(acc, Head(parts)), Tail(parts))

HintParse(input) == HintParseLoop(HintDefaults, Split(input))

\* SeverityLevel comparing without upper()
SeverityLevel_CaseSensitive(severity) ==
    IF severity = <<"C","R","I","T","I","C","A","L">> THEN 2
    ELSE IF severity = <<"M","A","J","O","R">> THEN 2
    ELSE IF severity = <<"M","I","N","O","R">> THEN 3
    ELSE 2

\* lines 166-175
SeverityLevel(severity) ==
    LET severity_upper == Upper(severity)
    IN  IF severity_upper = <<"C","R","I","T","I","C","A","L">> THEN 2
        ELSE IF severity_upper = <<"M","A","J","O","R">> THEN 2
        ELSE IF severity_upper = <<"M","I","N","O","R">> THEN 3
        ELSE 2

\* ApplyOverride without the clamp
ApplyOverride_NoClamp(level, override) ==
    IF ~override.none THEN override.value ELSE level

\* lines 177-179
ApplyOverride(level, override) ==
    IF ~override.none THEN Max(1, Min(4, override.value)) ELSE level

\* lines 166-179
HintLevelOf(severity, override) == ApplyOverride(SeverityLevel(severity), override)

\* line 163
IsSuccess(misconception) ==
    \/ Contains(Lower(misconception), <<"n","o","n","e">>)
    \/ Contains(Lower(misconception), <<"c","o","r","r","e","c","t">>)

\* lines 76-80 and 83-87
MissingConceptError ==
    << Lit("ERROR"), Lit(": Missing required fields: "), Lit("CONCEPT"),
       Lit(". Expected format: 'MODE: CONCEPT_EXPLANATION ||| CONCEPT: [text] ||| QUESTION: [text] ||| TOPIC: [text]'") >>
MissingProblemError ==
    << Lit("ERROR"), Lit(": Missing required fields: "), Lit("PROBLEM"),
       Lit(". Expected format: 'MODE: HINT ||| PROBLEM: [text] ||| STUDENT_WORK: [text] ||| MISCONCEPTION: [text] ||| SEVERITY: [level] ||| TOPIC: [text]'") >>

\* lines 97-148
generate_concept_explanation(f, retriever, llm) ==
    LET calls == << RetrieveCall("top_k"), InvokeCall >>
    IN  IF llm = "raises" THEN Raised(f, 0, calls)
        ELSE Returned(<< Lit("CONCEPT EXPLANATION"), Lit(" for '"), Txt(f.concept),
                         Lit("':\n\n"), Txt(Strip(HintResponse)), Lit("\n\n"),
                         Lit("This explanation is ready to present to the student. Use final_answer to deliver it.") >>,
                      f, 0, calls)

\* lines 218-241
generate_success_response(f, llm) ==
    LET calls == << InvokeCall >>
    IN  IF llm = "raises" THEN Raised(f, 0, calls)
        ELSE Returned(<< Lit("SUCCESS RESPONSE"), Lit(":\n"), Txt(Strip(HintResponse)),
                         Lit("\n\n"),
                         Lit("This response is ready to present to the student. Use final_answer to deliver it.") >>,
                      f, 0, calls)

\* lines 150-216
generate_socratic_hint(f, retriever, llm) ==
    IF IsSuccess(f.misconception) THEN generate_success_response(f, llm)
    ELSE LET level == HintLevelOf(f.severity, f.hint_level_override)
             calls == << RetrieveCall("top_k"), InvokeCall >>
         IN  IF llm = "raises" THEN Raised(f, level, calls)
             ELSE Returned(<< Lit("COMPLETE HINT"), Lit(" (Level "), Txt(IntChars(level)),
                              Lit(" based on "), Txt(f.severity), Lit(" severity):\n"),
                              Txt(Strip(HintResponse)), Lit("\n\n"),
                              Lit("This hint is ready to present to the student. Use final_answer to deliver it.") >>,
                           f, level, calls)

\* HintRoute requiring PROBLEM in both modes
HintRoute_ProblemAlways(f, retriever, llm) ==
    IF f.problem = <<>> THEN Returned(MissingProblemError, f, 0, <<>>)
    ELSE IF f.mode = "CONCEPT_EXPLANATION"
         THEN generate_concept_explanation(f, retriever, llm)
         ELSE generate_socratic_hint(f, retriever, llm)

\* lines 73-95, on the locals f the loop ended with
HintRoute(f, retriever, llm) ==
        IF f.mode = "CONCEPT_EXPLANATION"
        THEN IF f.concept = <<>> THEN Returned(MissingConceptError, f, 0, <<>>)
             ELSE generate_concept_explanation(f, retriever, llm)
        ELSE IF f.problem = <<>> THEN Returned(MissingProblemError, f, 0, <<>>)
             ELSE generate_socratic_hint(f, retriever, llm)

-----------------------------------------------------------------------------
(* StudentWorkAnalyzerTool (diagnostic_tools.py)                           *)

\* str.split(ch) for a one-character separator
RECURSIVE SplitOn(_, _)
SplitOn(s, ch) ==
    LET i == CHOOSE k \in 1..(Len(s) + 1) :
                 /\ (k = Len(s) + 1 \/ s[k] = ch)
                 /\ \A j \in 1..(k - 1) : s[j] # ch
    IN  IF i > Len(s) THEN << s >>
        ELSE << SubSeq(s, 1, i - 1) >> \o SplitOn(SubSeq(s, i + 1, Len(s)), ch)

\* lines 104-106: the locals before the loop
DiagDefaults == [ problem |-> <<>>, student_work |-> <<>>, topic |-> <<>> ]

\* DiagParsePart taking a segment without a known prefix as the student's work
DiagParsePart_UnknownIsWork(acc, rawPart) ==
    LET part  == Strip(rawPart)
        upper == Upper(part)
    IN  IF HasPrefix(upper, F_PROBLEM)
        THEN [acc EXCEPT !.problem = Value(part)]
        ELSE IF HasPrefix(upper, F_STUDENT_WORK)
        THEN [acc EXCEPT !.student_work = Value(part)]
        ELSE IF HasPrefix(upper, F_TOPIC)
        THEN [acc EXCEPT !.topic = Value(part)]
        ELSE [acc EXCEPT !.student_work = part]

\* lines 109-115: one iteration of the loop
DiagParsePart(acc, rawPart) ==
    LET part  == Strip(rawPart)
        upper == Upper(part)
    IN  IF HasPrefix(upper, F_PROBLEM)
        THEN [acc EXCEPT !.problem = Value(part)]
        ELSE IF HasPrefix(upper, F_STUDENT_WORK)
        THEN [acc EXCEPT !.student_work = Value(part)]
        ELSE IF HasPrefix(upper, F_TOPIC)
        THEN [acc EXCEPT !.topic = Value(part)]
        ELSE acc

\* lines 104-115
RECURSIVE DiagParseLoop(_, _)
DiagParseLoop(acc, parts) ==
    IF parts = <<>> THEN acc
    ELSE DiagParseLoop(DiagParsePart(acc, Head(parts)), Tail(parts))

\* lines 192-199: the first line with 'SEVERITY:' and a known level decides;
\* <<>> when no line does
RECURSIVE SeverityOfLines(_)
SeverityOfLines(lines) ==
    IF lines = <<>> THEN <<>>
    ELSE LET upper == Upper(Head(lines))
         IN  IF ~Contains(upper, F_SEVERITY \o <<":">>) THEN SeverityOfLines(Tail(lines))
             ELSE IF Contains(upper, <<"C","R","I","T","I","C","A","L">>) THEN <<"C","r","i","t","i","c","a","l">>
             ELSE IF Contains(upper, <<"M","A","J","O","R">>) THEN <<"M","a","j","o","r">>
             ELSE IF Contains(upper, <<"M","I","N","O","R">>) THEN <<"M","i","n","o","r">>
             ELSE SeverityOfLines(Tail(lines))

\* _extract_severity, lines 187-207
extract_severity(llm_response) ==
    LET response_upper == Upper(llm_response)
        byLine == IF Contains(response_upper, F_SEVERITY \o <<":">>)
                  THEN SeverityOfLines(SplitOn(llm_response, "\n"))
                  ELSE <<>>
    IN  IF byLine # <<>> THEN byLine
        ELSE IF Contains(response_upper, <<"C","R","I","T","I","C","A","L">>) THEN <<"C","r","i","t","i","c","a","l">>
        ELSE IF Contains(response_upper, <<"M","I","N","O","R">>) THEN <<"M","i","n","o","r">>
        ELSE <<"M","a","j","o","r">>

\* line 102
InvalidFormatError ==
    << Lit("ERROR"), Lit(": Invalid input format. Expected '"), Lit("PROBLEM"),
       Lit(": ... ||| "), Lit("STUDENT_WORK"), Lit(": ... ||| "), Lit("TOPIC"),
       Lit(": ...'") >>

\* lines 185 (diagnostic_tools.py) and 176 (safety_tools.py)
AnalysisFailed(message) ==
    << Lit("ERROR"), Lit(": Analysis failed. "), Txt(message) >>

\* str(e) of what a collaborator raised
RetrieverMessage == <<"r","e","t","r","i","e","v","e","(",")"," ","g","o","t"," ","a","n"," ","u","n","e","x","p","e","c","t","e","d"," ","k","e","y","w","o","r","d"," ","a","r","g","u","m","e","n","t"," ","'","k","'">>
LLMMessage       == <<"c","o","n","n","e","c","t","i","o","n"," ","r","e","f","u","s","e","d">>

\* response.content of an analysis request
DiagResponses ==
    { <<"E","R","R","O","R","_","I","D","E","N","T","I","F","I","E","D",":"," ","s","i","g","n","\n","S","E","V","E","R","I","T","Y",":"," ","C","r","i","t","i","c","a","l">>,
      <<"s","e","v","e","r","i","t","y",":"," ","m","i","n","o","r","\n","E","V","I","D","E","N","C","E",":"," ","x">>,
      <<"S","E","V","E","R","I","T","Y",":"," ","h","i","g","h","\n","a"," ","m","a","j","o","r"," ","s","l","i","p">>,
      <<"a"," ","c","r","i","t","i","c","a","l"," ","a","n","d"," ","m","i","n","o","r"," ","s","l","i","p">>,
      <<" ","S","E","V","E","R","I","T","Y",":"," ","M","a","j","o","r"," ">>,
      <<>> }

\* lines 99-115: the parts, whether there are the three that line 101 asks
\* for, and the locals after the loop
DiagParse(input) ==
    LET parts == Split(input)
    IN  [ enough |-> Len(parts) >= 3,
          locals |-> IF Len(parts) < 3 THEN DiagDefaults
                     ELSE DiagParseLoop(DiagDefaults, parts) ]

\* use(), lines 92-185, on what DiagParse gives.  The units analysis of
\* lines 117-127 only feeds the prompt text and is not represented.
DiagAnalyze(p, retriever, llm, response) ==
    IF ~p.enough
    THEN Returned(InvalidFormatError, DiagDefaults, 0, <<>>)
    ELSE LET f == p.locals
         IN  IF retriever = "raises"
             THEN Returned(AnalysisFailed(RetrieverMessage), f, 0,
                           << RetrieveCall("k") >>)
             ELSE IF llm = "raises"
             THEN Returned(AnalysisFailed(LLMMessage), f, 0,
                           << RetrieveCall("k"), InvokeCall >>)
             ELSE LET result == Strip(response)
                  IN  Returned(<< Lit("ANALYSIS COMPLETE"), Lit(" - Severity: "),
                                  Txt(extract_severity(result)), Lit("\n\n"),
                                  Txt(result) >>,
                               f, 0, << RetrieveCall("k"), InvokeCall >>)

-----------------------------------------------------------------------------
(* AnswerRevelationAnalyzerTool (safety_tools.py)                          *)

\* s with every character of chars removed
Remove(s, chars) == SelectSeq(s, LAMBDA c : c \notin chars)

\* re.search(r'\d+(?:\.\d+)?\s*[a-zA-Z/·\*]+', s)
SearchNumberWord(s) ==
    \E i \in 1..Len(s) :
        /\ s[i] \in Digits
        /\ At(s, SkipClass(s, i + 1, Whitespace)) \in Letters \cup {"/", "·", "*"}

answer_keywords ==
    { <<"a","n","s","w","e","r">>, <<"g","o","t">>, <<"c","a","l","c","u","l","a","t","e","d">>, <<"r","e","s","u","l","t">>, <<"e","q","u","a","l","s">>, <<"i","s">> }

\* re.search(r'(?:answer|got|calculated|result|equals|is)\s*[=:]?\s*\S+', s,
\* re.IGNORECASE)
SearchAnswerKeyword(s) ==
    \E i \in 1..Len(s), w \in answer_keywords :
        /\ LitAt(Lower(s), i, w)
        /\ SkipClass(s, i + Len(w), Whitespace) <= Len(s)

\* re.search(r'^\s*-?\d+(?:\.\d+)?\s*$', s) on a stripped s
SearchStandaloneNumber(s) ==
    LET t        == Strip(s)
        start    == IF At(t, 1) = "-" THEN 2 ELSE 1
        afterInt == SkipClass(t, start, Digits)
        afterAll == IF At(t, afterInt) = "." /\ At(t, afterInt + 1) \in Digits
                    THEN SkipClass(t, afterInt + 1, Digits) ELSE afterInt
    IN  /\ afterInt > start
        /\ afterAll = Len(t) + 1

\* lines 54-67: the submissions kept as answers
IsStudentAnswer(submission) ==
    \/ SearchNumberWord(submission)
    \/ SearchAnswerKeyword(submission)
    \/ SearchStandaloneNumber(submission)

\* _extract_student_answers_from_history, lines 38-69
extract_student_answers_from_history(history_str) ==
    IF history_str = <<>> \/ history_str = <<"[", "]">> THEN <<>>
    ELSE LET history_clean == Remove(StripChars(history_str, {"[", "]"}), {"'", "\""})
             pieces        == SplitOn(history_clean, ",")
             submissions   == SelectSeq([i \in DOMAIN pieces |-> Strip(pieces[i])],
                                        LAMBDA x : x # <<>>)
         IN  SelectSeq(submissions, IsStudentAnswer)

\* _normalize_answer, lines 72-80
normalize_answer(answer) ==
    Remove(Remove(Strip(Lower(answer)), Whitespace), {"*", "·", "×"})

\* lines 106-115
AlreadyAnswered(student_answers, correct_answer) ==
    /\ student_answers # <<>>
    /\ correct_answer # <<>>
    /\ \E i \in DOMAIN student_answers :
          \/ Contains(normalize_answer(student_answers[i]), normalize_answer(correct_answer))
          \/ Contains(normalize_answer(correct_answer), normalize_answer(student_answers[i]))

\* lines 183-191: the first 'VERDICT:' line with UNSAFE or SAFE decides;
\* "" when no line does
RECURSIVE VerdictOfLines(_, _, _)
VerdictOfLines(lines, llm_response, student_already_answered) ==
    IF lines = <<>> THEN ""
    ELSE LET upper == Upper(Head(lines))
         IN  IF ~Contains(upper, <<"V","E","R","D","I","C","T",":">>)
             THEN VerdictOfLines(Tail(lines), llm_response, student_already_answered)
             ELSE IF Contains(upper, <<"U","N","S","A","F","E">>)
             THEN IF student_already_answered /\ Contains(Lower(llm_response), <<"c","o","r","r","e","c","t">>)
                  THEN "SAFE" ELSE "UNSAFE"
             ELSE IF Contains(upper, <<"S","A","F","E">>) THEN "SAFE"
             ELSE VerdictOfLines(Tail(lines), llm_response, student_already_answered)

confirm_phrases == { <<"c","o","r","r","e","c","t">>, <<"r","i","g","h","t">>, <<"e","x","c","e","l","l","e","n","t">>, <<"p","e","r","f","e","c","t">>, <<"y","e","s">> }

\* _extract_verdict turning UNSAFE into SAFE whenever the student has already
\* answered, whatever the response says
extract_verdict_OverrideAlways(llm_response, student_already_answered) ==
    LET byLine == VerdictOfLines(SplitOn(llm_response, "\n"), llm_response,
                                 student_already_answered)
    IN  IF byLine = "UNSAFE" /\ student_already_answered THEN "SAFE"
        ELSE IF byLine # "" THEN byLine
        ELSE IF /\ student_already_answered
                /\ \E phrase \in confirm_phrases : Contains(Lower(llm_response), phrase)
        THEN "SAFE"
        ELSE "UNSAFE"

\* _extract_verdict taking a response without a deciding line as SAFE
extract_verdict_DefaultSafe(llm_response, student_already_answered) ==
    LET byLine == VerdictOfLines(SplitOn(llm_response, "\n"), llm_response,
                                 student_already_answered)
    IN  IF byLine # "" THEN byLine ELSE "SAFE"

\* _extract_verdict, lines 179-205
extract_verdict(llm_response, student_already_answered) ==
    LET byLine == VerdictOfLines(SplitOn(llm_response, "\n"), llm_response,
                                 student_already_answered)
    IN  IF byLine # "" THEN byLine
        ELSE IF /\ student_already_answered
                /\ \E phrase \in confirm_phrases : Contains(Lower(llm_response), phrase)
        THEN "SAFE"
        ELSE "UNSAFE"

\* lines 89-92: the locals before the loop, and those of lines 105-106
SafetyDefaults ==
    [ problem |-> <<>>, correct_answer |-> <<>>, student_history |-> <<>>,
      proposed_response |-> <<>>, student_answers |-> <<>>,
      student_already_answered |-> FALSE ]

\* the loop keeping the first value of a field: a later segment with the
\* same name is ignored
SafetyParsePart_KeepFirst(acc, rawPart) ==
    LET part_clean == Strip(rawPart)
        upper      == Upper(part_clean)
    IN  IF HasPrefix(upper, F_PROBLEM)
        THEN IF acc.problem # <<>> THEN acc
             ELSE [acc EXCEPT !.problem = Value(part_clean)]
        ELSE IF HasPrefix(upper, F_CORRECT_ANSWER)
        THEN IF acc.correct_answer # <<>> THEN acc
             ELSE [acc EXCEPT !.correct_answer = Value(part_clean)]
        ELSE IF HasPrefix(upper, F_STUDENT_HISTORY)
        THEN [acc EXCEPT !.student_history = Value(part_clean)]
        ELSE IF HasPrefix(upper, F_PROPOSED_RESPONSE)
        THEN [acc EXCEPT !.proposed_response = Value(part_clean)]
        ELSE acc

\* lines 95-103: one iteration of the loop
SafetyParsePart(acc, rawPart) ==
    LET part_clean == Strip(rawPart)
        upper      == Upper(part_clean)
    IN  IF HasPrefix(upper, F_PROBLEM)
        THEN [acc EXCEPT !.problem = Value(part_clean)]
        ELSE IF HasPrefix(upper, F_CORRECT_ANSWER)
        THEN [acc EXCEPT !.correct_answer = Value(part_clean)]
        ELSE IF HasPrefix(upper, F_STUDENT_HISTORY)
        THEN [acc EXCEPT !.student_history = Value(part_clean)]
        ELSE IF HasPrefix(upper, F_PROPOSED_RESPONSE)
        THEN [acc EXCEPT !.proposed_response = Value(part_clean)]
        ELSE acc

\* lines 88-103
RECURSIVE SafetyParseLoop(_, _)
SafetyParseLoop(acc, parts) ==
    IF parts = <<>> THEN acc
    ELSE SafetyParseLoop(SafetyParsePart(acc, Head(parts)), Tail(parts))

\* lines 88-115
SafetyParse(input) ==
    LET f       == SafetyParseLoop(SafetyDefaults, Split(input))
        answers == extract_student_answers_from_history(f.student_history)
    IN  [f EXCEPT !.student_answers = answers,
                  !.student_already_answered = AlreadyAnswered(answers, f.correct_answer)]

\* response.content of a validation request
SafetyResponses ==
    { <<"V","E","R","D","I","C","T",":"," ","S","A","F","E","\n","R","E","A","S","O","N","I","N","G",":"," ","a","s","k","s"," ","a"," ","q","u","e","s","t","i","o","n">>,
      <<"V","E","R","D","I","C","T",":"," ","U","N","S","A","F","E","\n","R","E","A","S","O","N","I","N","G",":"," ","s","t","a","t","e","s"," ","t","h","e"," ","v","a","l","u","e">>,
      <<"v","e","r","d","i","c","t",":"," ","u","n","s","a","f","e","\n","R","E","A","S","O","N","I","N","G",":"," ","c","o","n","f","i","r","m","s"," ","t","h","e"," ","c","o","r","r","e","c","t"," ","v","a","l","u","e">>,
      <<"T","h","i","s"," ","l","o","o","k","s"," ","U","N","S","A","F","E"," ","t","o"," ","m","e">>,
      <<"Y","e","s",","," ","t","h","a","t"," ","i","s"," ","r","i","g","h","t">>,
      <<"V","E","R","D","I","C","T",":"," ","u","n","c","l","e","a","r">>,
      <<"I","t"," ","i","s"," ","S","A","F","E"," ","t","o"," ","s","e","n","d">>,
      <<"R","E","A","S","O","N","I","N","G",":"," ","f","i","n","e","\n","V","E","R","D","I","C","T",":"," ","S","A","F","E">>,
      <<"V","E","R","D","I","C","T",":"," ","U","N","S","A","F","E","\n","R","E","A","S","O","N","I","N","G",":"," ","T","h","e"," ","h","i","n","t"," ","i","s"," ","i","n","c","o","r","r","e","c","t">>,
      <<>> }

\* use(), lines 82-176, on the locals f of lines 88-115
SafetyAnalyze(f, llm, response) ==
    IF llm = "raises"
    THEN Returned(AnalysisFailed(LLMMessage), f, 0, << InvokeCall >>)
    ELSE LET result  == Strip(response)
             verdict == extract_verdict(result, f.student_already_answered)
         IN  IF verdict = "UNSAFE"
             THEN Returned(<< Lit("UNSAFE"), Lit(" - Answer revelation detected.\n\n"),
                              Txt(result) >>, f, 0, << InvokeCall >>)
             ELSE Returned(<< Lit("SAFE"), Lit(" - Response does not reveal answer.\n\n"),
                              Txt(result) >>, f, 0, << InvokeCall >>)

-----------------------------------------------------------------------------
(* Inputs                                                                  *)

MaxAtoms == 3

\* the pieces student texts are built from
TextAtoms ==
    { <<"w","h","y">>,
      <<"?">>,
      <<" ">>,
      <<"\n">>,
      <<"I"," ","g","o","t">>,
      <<"s","t","u","c","k">>,
      <<"5">>,
      <<"k","g">>,
      <<"=">>,
      <<"-">>,
      <<"*">>,
      <<"T","h","e"," ","a","n","s","w","e","r">>,
      <<"i","s">> }

SeqsUpTo(S, n) == UNION { [1..k -> S] : k \in 0..n }

\* test_student_stress.py line 37 and test_mode_detection.py line 32
StuckOnDerivatives == <<"I"," ","g","o","t"," ","s","t","u","c","k"," ","o","n"," ","d","e","r","i","v","a","t","i","v","e","s">>
ResultWithUnit     == <<"T","h","e"," ","r","e","s","u","l","t"," ","i","s"," ","5","0"," ","N">>

\* texts with characters outside ASCII: a letter that ends no word, and a
\* multiplication sign that is no operator of line 94
NonAsciiWord == <<"w","h","y","é">>
NonAsciiWork == <<"I"," ","g","o","t"," ","5"," ","×"," ","1","0","é","?">>

\* student texts of the test suites (test_mode_detection.py, test_student_stress.py)
SampleTexts ==
    {
      \* Can you explain why 50 is the answer?
      <<"C","a","n"," ","y","o","u"," ","e","x","p","l","a","i",
        "n"," ","w","h","y"," ","5","0"," ","i","s"," ","t","h",
        "e"," ","a","n","s","w","e","r","?">>,
      \* What is momentum?
      <<"W","h","a","t"," ","i","s"," ","m","o","m","e","n","t",
        "u","m","?">>,
      \* What is the concept from chapter 5?
      <<"W","h","a","t"," ","i","s"," ","t","h","e"," ","c","o",
        "n","c","e","p","t"," ","f","r","o","m"," ","c","h","a",
        "p","t","e","r"," ","5","?">>,
      \* Why is my answer of 50 wrong?
      <<"W","h","y"," ","i","s"," ","m","y"," ","a","n","s","w",
        "e","r"," ","o","f"," ","5","0"," ","w","r","o","n","g",
        "?">>,
      \* I got 50kg*m/s
      <<"I"," ","g","o","t"," ","5","0","k","g","*","m","/","s">>,
      \* I got confused about how to do this
      <<"I"," ","g","o","t"," ","c","o","n","f","u","s","e","d",
        " ","a","b","o","u","t"," ","h","o","w"," ","t","o"," ",
        "d","o"," ","t","h","i","s">>,
      \* x = 7
      <<"x"," ","="," ","7">>,
      \* p = 5 * 10 = 50
      <<"p"," ","="," ","5"," ","*"," ","1","0"," ","="," ","5",
        "0">>,
      \* My answer is 7
      <<"M","y"," ","a","n","s","w","e","r"," ","i","s"," ","7">>,
      \* what is 50kg = 50?
      <<"w","h","a","t"," ","i","s"," ","5","0","k","g"," ","=",
        " ","5","0","?">>,
      \* I calculated 42
      <<"I"," ","c","a","l","c","u","l","a","t","e","d"," ","4",
        "2">>,
      \* The answer is 5
      <<"T","h","e"," ","a","n","s","w","e","r"," ","i","s"," ","5">>,
      StuckOnDerivatives,
      ResultWithUnit,
      NonAsciiWord,
      NonAsciiWork
    }

Texts == { Concat(a) : a \in SeqsUpTo(TextAtoms, MaxAtoms) } \cup SampleTexts

\* current_problem = None (main.py line 258)
NoneText == << "None" >>

\* interactive_loop has not run: its locals as lines 257-258 set them
NoLoop == /\ current_topic = <<"g","e","n","e","r","a","l">>
          /\ current_problem = NoneText
          /\ entered = <<>>

Problems == { <<"x">>, <<"F","=","m","a">> }
Topics   == { <<"g","e","n","e","r","a","l">>, <<"a","l","g","e","b","r","a">> }

NoTool == /\ tool_input = <<>>
          /\ tool_output = <<>>
          /\ parsed = <<>>
          /\ hint_level = 0
          /\ collab = <<>>
          /\ fields = <<>>

-----------------------------------------------------------------------------
(* The preprocessor: one call of one of the three operations on a text     *)

InitMode ==
    /\ pc = "start"
    /\ op = "none"
    /\ user_input \in Texts
    /\ hint_score = 0
    /\ concept_score = 0
    /\ detected_mode = "None"
    /\ has_answer = FALSE
    /\ request = <<>>
    /\ classified = <<>>
    /\ NoTool
    /\ NoLoop

\* DetectMode keeping the mode of the call before when the text decides
\* nothing
DetectMode_Sticky ==
    /\ pc = "start"
    /\ pc' = "done"
    /\ op' = "detect_mode"
    /\ hint_score' = IF IsBlank(user_input) THEN 0
                     ELSE HintScoreOf(NormalizedText(user_input))
    /\ concept_score' = IF IsBlank(user_input) THEN 0
                        ELSE ConceptScoreOf(NormalizedText(user_input))
    /\ detected_mode' = IF detect_mode(user_input) = "None" THEN detected_mode
                        ELSE detect_mode(user_input)
    /\ classified' = Append(classified, [input |-> user_input, mode |-> detected_mode'])
    /\ UNCHANGED <<user_input, has_answer, request>>
    /\ UNCHANGED toolVars
    /\ UNCHANGED loopVars

DetectMode ==
    /\ pc = "start"
    /\ pc' = "done"
    /\ op' = "detect_mode"
    /\ hint_score' = IF IsBlank(user_input) THEN 0
                     ELSE HintScoreOf(NormalizedText(user_input))
    /\ concept_score' = IF IsBlank(user_input) THEN 0
                        ELSE ConceptScoreOf(NormalizedText(user_input))
    /\ detected_mode' = detect_mode(user_input)
    /\ classified' = Append(classified, [input |-> user_input, mode |-> detected_mode'])
    /\ UNCHANGED <<user_input, has_answer, request>>
    /\ UNCHANGED toolVars
    /\ UNCHANGED loopVars

HasAnswerContent ==
    /\ pc = "start"
    /\ pc' = "done"
    /\ op' = "has_answer_content"
    /\ has_answer' = has_answer_content(user_input)
    /\ UNCHANGED <<user_input, hint_score, concept_score, detected_mode, request,
                   classified>>
    /\ UNCHANGED toolVars
    /\ UNCHANGED loopVars

ProcessStudentWork ==
    /\ pc = "start"
    /\ \E problem_text \in Problems, topic \in Topics :
          request' = BuildRequest(problem_text, user_input, topic)
    /\ pc' = "done"
    /\ op' = "process_student_work"
    /\ UNCHANGED <<user_input, hint_score, concept_score, detected_mode, has_answer,
                   classified>>
    /\ UNCHANGED toolVars
    /\ UNCHANGED loopVars

NextMode == DetectMode \/ HasAnswerContent \/ ProcessStudentWork

SpecMode == InitMode /\ [][NextMode]_vars

-----------------------------------------------------------------------------
(* One call of SocraticHintGeneratorTool.use on a record                   *)

MaxSegments == 3

V_x == <<"x">>

\* segments of hint records, for the validation of the required fields
HintFieldSegments ==
    { Segment(F_MODE, <<"c","o","n","c","e","p","t","_","e","x","p","l","a","n","a","t","i","o","n">>),
      Segment(Lower(F_MODE), <<"H","i","n","t">>),
      Segment(F_PROBLEM, V_x),
      Segment(F_PROBLEM, <<>>),
      Segment(F_CONCEPT, <<"m","o","m","e","n","t","u","m">>),
      Segment(F_CONCEPT, <<>>),
      Segment(F_SEVERITY, <<"C","r","i","t","i","c","a","l">>),
      Segment(F_TOPIC, <<"p","h","y","s","i","c","s">>),
      Segment(F_HINT_LEVEL, <<"4">>),
      Segment(F_MISCONCEPTION, <<"i","n","c","o","r","r","e","c","t"," ","s","i","g","n">>),
      Segment(F_MISCONCEPTION, <<"S","t","u","d","e","n","t"," ","i","s"," ","c","o","r","r","e","c","t">>),
      Segment(<<"N","O","T","E">>, V_x) }

\* segments of hint records, for the choice of the hint level
HintLevelSegments ==
    { Segment(F_SEVERITY, <<"C","r","i","t","i","c","a","l">>),
      Segment(F_SEVERITY, <<"M","A","J","O","R">>),
      Segment(Lower(F_SEVERITY), <<"m","i","n","o","r">>),
      Segment(F_SEVERITY, <<"n","o","n","e">>),
      Segment(F_HINT_LEVEL, <<"1","0">>),
      Segment(F_HINT_LEVEL, <<"0">>),
      Segment(F_HINT_LEVEL, <<"-","1">>),
      Segment(F_HINT_LEVEL, <<" ","3"," ">>),
      Segment(F_HINT_LEVEL, <<"a","b","c">>),
      Segment(F_HINT_LEVEL, <<"2",".","5">>),
      F_HINT_LEVEL \o <<":">> }

Padded == <<" ">> \o Delim \o <<" ">>

\* records of up to MaxSegments segments
HintFieldInputs ==
    { Join(segs, Padded) : segs \in SeqsUpTo(HintFieldSegments, MaxSegments) }

\* a PROBLEM segment and up to MaxSegments segments
HintLevelInputs ==
    { Join(<< Segment(F_PROBLEM, V_x) >> \o segs, Padded) :
        segs \in SeqsUpTo(HintLevelSegments, MaxSegments) }

NoMode == /\ user_input = <<>>
          /\ hint_score = 0
          /\ concept_score = 0
          /\ detected_mode = "None"
          /\ has_answer = FALSE
          /\ request = <<>>
          /\ classified = <<>>
          /\ NoLoop

\* before a call of a tool's use() on input
BeforeUse(input) ==
    /\ pc = "start"
    /\ op = "none"
    /\ tool_input = input
    /\ tool_output = <<>>
    /\ parsed = <<>>
    /\ hint_level = 0
    /\ collab = <<>>
    /\ fields = <<>>
    /\ NoMode

InitHint      == \E input \in HintFieldInputs : BeforeUse(input)
InitHintLevel == \E input \in HintLevelInputs : BeforeUse(input)

\* what a call of use() leaves behind
Finish(name, r) ==
    /\ pc' = r.pc
    /\ op' = name
    /\ tool_output' = r.out
    /\ parsed' = r.parsed
    /\ hint_level' = r.level
    /\ collab' = r.calls
    /\ UNCHANGED <<tool_input, fields>>
    /\ UNCHANGED modeVars
    /\ UNCHANGED loopVars

\* SocraticHintGeneratorTool.use, lines 29-95
HintUse ==
    /\ pc = "start"
    /\ \E f \in {HintParse(tool_input)} :
          \E retriever \in RetrieverOutcomes, llm \in LLMOutcomes :
             \E r \in {HintRoute(f, retriever, llm)} : Finish("hint.use", r)

NextHint == HintUse

SpecHint      == InitHint /\ [][NextHint]_vars
SpecHintLevel == InitHintLevel /\ [][NextHint]_vars

-----------------------------------------------------------------------------
(* One call of StudentWorkAnalyzerTool.use on a record                     *)

\* segments of work-analysis records
DiagSegments ==
    { Segment(F_PROBLEM, <<"S","o","l","v","e"," ","x">>),
      Segment(F_PROBLEM, <<>>),
      Segment(Lower(F_STUDENT_WORK), <<"x"," ","="," ","5">>),
      F_STUDENT_WORK \o <<":">>,
      Segment(F_TOPIC, <<"a","l","g","e","b","r","a">>),
      Segment(F_TOPIC, <<" ">>),
      Segment(<<"N","O","T","E">>, V_x) }

\* records of up to MaxSegments segments, written with ' ||| ' or '|||'
DiagInputs ==
    UNION { { Join(segs, Padded), Join(segs, Delim) } :
            segs \in SeqsUpTo(DiagSegments, MaxSegments) }

InitDiag == \E input \in DiagInputs : BeforeUse(input)

\* StudentWorkAnalyzerTool.use, lines 92-185
DiagUse ==
    /\ pc = "start"
    /\ \E p \in {DiagParse(tool_input)} :
          \E retriever \in RetrieverOutcomes, llm \in LLMOutcomes, response \in DiagResponses :
             \E r \in {DiagAnalyze(p, retriever, llm, response)} :
                Finish("diag.use", r)

NextDiag == DiagUse

SpecDiag == InitDiag /\ [][NextDiag]_vars

-----------------------------------------------------------------------------
(* One call of StudentWorkAnalyzerTool.use on a record whose values carry  *)
(* colons, field names and '|||'                                           *)

\* values with a colon and with a field name inside
\* (test_student_stress.py lines 222-242)
RatioWork      == <<"T","h","e"," ","r","a","t","i","o"," ","i","s"," ","2",":","3">>
TopicInProblem == <<"E","x","p","l","a","i","n"," ","T","O","P","I","C",":"," ","g","r","a","v","i","t","y">>

\* a student's text with '|||' inside (test_student_stress.py lines 206-220)
TriplePipeWork == <<"I"," ","t","r","i","e","d"," ","a"," ","|","|","|"," ","b"," ","a","p","p","r","o","a","c","h">>

\* segments of such records, with a segment of no known field
ParseSegments ==
    { Segment(F_PROBLEM, <<"S","o","l","v","e"," ","x">>),
      Segment(F_PROBLEM, TopicInProblem),
      Segment(F_STUDENT_WORK, RatioWork),
      Segment(F_STUDENT_WORK, TriplePipeWork),
      Segment(Lower(F_STUDENT_WORK), <<"x"," ","="," ","5">>),
      Segment(F_TOPIC, <<"a","l","g","e","b","r","a">>),
      Segment(<<"N","O","T","E">>, V_x) }

\* records of up to MaxSegments segments, written with ' ||| ' or '|||'
ParseInputs ==
    UNION { { Join(segs, Padded), Join(segs, Delim) } :
            segs \in SeqsUpTo(ParseSegments, MaxSegments) }

InitParse == \E input \in ParseInputs : BeforeUse(input)

SpecParse == InitParse /\ [][NextDiag]_vars

-----------------------------------------------------------------------------
(* One call of AnswerRevelationAnalyzerTool.use on a record                *)

\* segments of safety-validation records
SafetySegments ==
    { Segment(F_PROBLEM, <<"p"," ","="," ","m","v">>),
      Segment(F_CORRECT_ANSWER, <<"5","0"," ","k","g","*","m","/","s">>),
      Segment(F_CORRECT_ANSWER, <<"5","0">>),
      Segment(F_STUDENT_HISTORY, <<"[","]">>),
      Segment(F_STUDENT_HISTORY, <<"[","'","5","'","]">>),
      Segment(F_STUDENT_HISTORY, <<"[","'","h","e","l","l","o","'",","," ","'","I"," ","g","o","t"," ","5","0","k","g"," ","m","/","s","'","]">>),
      Segment(F_PROPOSED_RESPONSE, <<"C","h","e","c","k"," ","t","h","e"," ","u","n","i","t","s",".">>),
      Segment(F_PROPOSED_RESPONSE, <<>>) }

\* records of up to MaxSegments segments
SafetyInputs ==
    { Join(segs, Padded) : segs \in SeqsUpTo(SafetySegments, MaxSegments) }

InitSafety == \E input \in SafetyInputs : BeforeUse(input)

\* AnswerRevelationAnalyzerTool.use, lines 82-176
SafetyUse ==
    /\ pc = "start"
    /\ \E f \in {SafetyParse(tool_input)} :
          \E llm \in LLMOutcomes, response \in SafetyResponses :
             \E r \in {SafetyAnalyze(f, llm, response)} : Finish("safety.use", r)

NextSafety == SafetyUse

SpecSafety == InitSafety /\ [][NextSafety]_vars

-----------------------------------------------------------------------------
(* A record serialized by build_tool_input and handed to a tool            *)

\* field values: plain, with colons, with a bar, with a field name inside,
\* with leading and with trailing whitespace
CodecValues ==
    { V_x, <<"2",":","3">>, <<"a","|","b">>, <<"T","O","P","I","C",":"," ","g">>, <<" ","x">>, <<"x"," ">> }

\* keys of work-analysis records (all of them fields of hint records too)
\* and of safety-validation records
DiagKeys   == << F_PROBLEM, F_STUDENT_WORK, F_TOPIC >>
SafetyKeys == << F_PROBLEM, F_CORRECT_ANSWER, F_PROPOSED_RESPONSE >>

\* the keyword arguments of a build_tool_input call: one value for each key
RecordsOf(keys) ==
    { [i \in DOMAIN keys |-> << keys[i], values[i] >>] :
        values \in [DOMAIN keys -> CodecValues] }

CodecRecords == RecordsOf(DiagKeys) \cup RecordsOf(SafetyKeys)

InitCodec ==
    /\ pc = "input"
    /\ op = "none"
    /\ fields \in CodecRecords
    /\ tool_input = <<>>
    /\ tool_output = <<>>
    /\ parsed = <<>>
    /\ hint_level = 0
    /\ collab = <<>>
    /\ NoMode

\* conftest.build_tool_input, lines 76-83
BuildToolInput ==
    /\ pc = "input"
    /\ pc' = "start"
    /\ tool_input' = build_tool_input(fields)
    /\ UNCHANGED <<op, tool_output, parsed, hint_level, collab, fields>>
    /\ UNCHANGED modeVars
    /\ UNCHANGED loopVars

NextCodec == BuildToolInput \/ DiagUse \/ HintUse \/ SafetyUse

SpecCodec == InitCodec /\ [][NextCodec]_vars

-----------------------------------------------------------------------------
(* One call of a tool's use() on a record of <<name, value>> pairs written *)
(* the way one caller or another writes the delimiter                      *)

\* PROBLEM is read by the three tools, TOPIC by two of them, CORRECT_ANSWER
\* by one; PROBLEM and TOPIC with a value and with none
RecordPairs ==
    { << F_PROBLEM, <<"S","o","l","v","e"," ","x">> >>, << F_PROBLEM, <<>> >>,
      << F_TOPIC, <<"a","l","g","e","b","r","a">> >>, << F_TOPIC, <<>> >>,
      << F_CORRECT_ANSWER, <<"5">> >> }

\* '|||' without padding, ' ||| ' as build_tool_input writes it, and
\* whitespace of every kind around the delimiter and around the record
RecordStyles ==
    { [ lead |-> <<>>, sep |-> <<"|","|","|">>, trail |-> <<>> ],
      [ lead |-> <<>>, sep |-> <<" ","|","|","|"," ">>, trail |-> <<>> ],
      [ lead |-> <<" ">>, sep |-> <<"\t"," ","|","|","|","\n"," "," ">>,
        trail |-> <<" ","\n">> ] }

WriteRecord(pairs, style) ==
    style.lead
    \o Join([i \in DOMAIN pairs |-> Segment(pairs[i][1], pairs[i][2])], style.sep)
    \o style.trail

InitRecord ==
    \E pairs \in SeqsUpTo(RecordPairs, MaxSegments), style \in RecordStyles :
        /\ pc = "start"
        /\ op = "none"
        /\ tool_input = WriteRecord(pairs, style)
        /\ tool_output = <<>>
        /\ parsed = <<>>
        /\ hint_level = 0
        /\ collab = <<>>
        /\ fields = pairs
        /\ NoMode

NextRecord == HintUse \/ DiagUse \/ SafetyUse

SpecRecord == InitRecord /\ [][NextRecord]_vars

-----------------------------------------------------------------------------
(* A session: calls of detect_mode, has_answer_content and the tools, one  *)
(* after the other, each on the state the calls before it left             *)

\* the number of detect_mode calls of a session
MaxCalls == 3

\* texts of a session: no signal, a hint signal, concept signals
SessionTexts == { <<"h","e","l","l","o">>, <<"x"," ","="," ","7">>, <<"w","h","y","?">> }

\* the record of a session, read by each of the three tools
SessionRecord ==
    Join(<< Segment(F_PROBLEM, <<"S","o","l","v","e"," ","x">>),
            Segment(F_STUDENT_WORK, <<"x"," ","="," ","7">>),
            Segment(F_TOPIC, <<"a","l","g","e","b","r","a">>) >>, Padded)

InitSession ==
    /\ pc = "start"
    /\ op = "none"
    /\ user_input \in SessionTexts
    /\ hint_score = 0
    /\ concept_score = 0
    /\ detected_mode = "None"
    /\ has_answer = FALSE
    /\ request = <<>>
    /\ classified = <<>>
    /\ NoLoop
    /\ tool_input = SessionRecord
    /\ tool_output = <<>>
    /\ parsed = <<>>
    /\ hint_level = 0
    /\ collab = <<>>
    /\ fields = <<>>

\* the next call is set up: the student's next text comes in (main.py line
\* 262); what the calls before left behind stays
NextInput ==
    /\ pc \in {"done", "raised"}
    /\ Len(classified) < MaxCalls
    /\ pc' = "start"
    /\ user_input' \in SessionTexts
    /\ UNCHANGED <<op, hint_score, concept_score, detected_mode, has_answer,
                   request, classified>>
    /\ UNCHANGED toolVars
    /\ UNCHANGED loopVars

NextSession ==
    \/ NextInput
    \/ DetectMode
    \/ HasAnswerContent
    \/ DiagUse
    \/ SafetyUse
    \/ HintUse

SpecSession == InitSession /\ [][NextSession]_vars

-----------------------------------------------------------------------------
(* TutorSession.interactive_loop: one iteration per line read              *)

\* the number of lines read in a run
MaxLines == 4

\* what the user types: blank, the three ways to leave, help, topic and
\* problem with a text, without one and with capitals, and two pieces of work
LoopLines ==
    { <<" "," ">>, <<"q","u","i","t">>, <<"E","x","i","t">>, <<"q">>, <<"h","e","l","p">>,
      <<"t","o","p","i","c"," ","a","l","g","e","b","r","a">>, <<"T","o","p","i","c">>,
      <<"p","r","o","b","l","e","m"," ","S","o","l","v","e"," ","x">>, <<"P","R","O","B","L","E","M"," ","F","=","m","a"," ">>, <<"p","r","o","b","l","e","m">>,
      <<"x"," ","="," ","7">>, <<" ","w","h","y","?">> }

InitLoop ==
    /\ pc = "loop"
    /\ op = "none"
    /\ NoMode
    /\ NoTool

\* 'not current_problem' of line 289 is false
ProblemSet_NotNone(problem) == problem # NoneText

ProblemSet(problem) == problem \notin { NoneText, <<>> }

\* lines 260-304: input() returned line.  An exception of
\* process_student_work is caught at line 309 and the loop goes on, as it
\* does after an EOFError of input(); neither changes a local.
ReadLine ==
    /\ pc = "loop"
    /\ Len(entered) < MaxLines
    /\ \E line \in LoopLines :
          \E text \in {Strip(line)} :
             LET low    == Lower(text)
                 goOn   == /\ pc' = "loop"
                           /\ op' = "interactive_loop"
                           /\ UNCHANGED <<current_topic, current_problem, request>>
             IN  /\ entered' = Append(entered, line)
                 /\ user_input' = text
                 /\ IF text = <<>> THEN goOn
                    ELSE IF low \in { <<"q","u","i","t">>, <<"e","x","i","t">>, <<"q">> }
                    THEN /\ pc' = "ended"
                         /\ op' = "interactive_loop"
                         /\ UNCHANGED <<current_topic, current_problem, request>>
                    ELSE IF low = <<"h","e","l","p">> THEN goOn
                    ELSE IF StartsWith(low, <<"t","o","p","i","c">>)
                    THEN /\ pc' = "loop"
                         /\ op' = "interactive_loop"
                         /\ current_topic' = Strip(SubSeq(text, 6, Len(text)))
                         /\ UNCHANGED <<current_problem, request>>
                    ELSE IF StartsWith(low, <<"p","r","o","b","l","e","m">>)
                    THEN /\ pc' = "loop"
                         /\ op' = "interactive_loop"
                         /\ current_problem' = Strip(SubSeq(text, 8, Len(text)))
                         /\ UNCHANGED <<current_topic, request>>
                    ELSE IF ~ProblemSet(current_problem) THEN goOn
                    ELSE /\ pc' = "loop"
                         /\ op' = "process_student_work"
                         /\ request' = BuildRequest(current_problem, text, current_topic)
                         /\ UNCHANGED <<current_topic, current_problem>>
    /\ UNCHANGED <<hint_score, concept_score, detected_mode, has_answer, classified>>
    /\ UNCHANGED toolVars

\* lines 306-308: KeyboardInterrupt while the loop waits or works
Interrupted ==
    /\ pc = "loop"
    /\ pc' = "ended"
    /\ op' = "KeyboardInterrupt"
    /\ UNCHANGED modeVars
    /\ UNCHANGED toolVars
    /\ UNCHANGED loopVars

NextLoop == ReadLine \/ Interrupted

SpecLoop == InitLoop /\ [][NextLoop]_vars

-----------------------------------------------------------------------------
(* Claims about the preprocessor                                           *)

DetectModeReturned == pc = "done" /\ op = "detect_mode"
HasAnswerReturned  == pc = "done" /\ op = "has_answer_content"
RequestBuilt       == pc = "done" /\ op = "process_student_work"

HasWarning(req) == \E i \in DOMAIN req : req[i] = Lit(WarningLine)

\* the mode named on the request's first line, "None" without a prefix
PrefixMode(req) ==
    IF Len(req) >= 2 /\ req[1] = Lit(ModeLine) THEN req[2].s ELSE "None"

\* C2: the request sent to the runner carries the warning line if and only
\* if detect_mode(student_work) is CONCEPT_EXPLANATION and
\* has_answer_content(student_work) is true; a HINT request never does.
C2_WarningIff ==
    RequestBuilt =>
        /\ HasWarning(request) <=>
              (/\ detect_mode(user_input) = "CONCEPT_EXPLANATION"
               /\ has_answer_content(user_input))
        /\ PrefixMode(request) = "HINT" => ~HasWarning(request)

\* a concept question with answer-like content got the warning
C2_Witness ==
    /\ RequestBuilt
    /\ PrefixMode(request) = "CONCEPT_EXPLANATION"
    /\ has_answer_content(user_input)
    /\ HasWarning(request)

\* The patterns of claim C3, stated on positions of the text; "followed by"
\* allows whitespace in between, letters and phrases are compared without
\* regard to case, and a phrase is a run of whole words.
C3_HasDigit(t) == \E i \in DOMAIN t : t[i] \in Digits

C3_HasPhrase(t, phrase) ==
    \E i \in DOMAIN t :
        /\ i + Len(phrase) - 1 <= Len(t)
        /\ Lower(SubSeq(t, i, i + Len(phrase) - 1)) = phrase
        /\ (i = 1 \/ t[i - 1] \notin WordChars)
        /\ (i + Len(phrase) > Len(t) \/ t[i + Len(phrase)] \notin WordChars)

C3_EqualsNumber(t) ==
    \E i \in DOMAIN t, j \in DOMAIN t :
        /\ i < j
        /\ t[i] = "="
        /\ t[j] \in Digits
        /\ \/ \A k \in (i + 1)..(j - 1) : t[k] \in Whitespace
           \/ /\ j - 1 > i
              /\ t[j - 1] = "-"
              /\ \A k \in (i + 1)..(j - 2) : t[k] \in Whitespace

C3_NumberLetters(t) ==
    \E i \in DOMAIN t, j \in DOMAIN t :
        /\ i < j
        /\ t[i] \in Digits
        /\ t[j] \in Letters
        /\ \A k \in (i + 1)..(j - 1) : t[k] \in Whitespace

C3_Pattern(t) ==
    \/ C3_HasPhrase(t, W_the_answer)
    \/ C3_HasPhrase(t, W_my_answer)
    \/ C3_HasPhrase(t, W_answer_is)
    \/ C3_EqualsNumber(t)
    \/ C3_NumberLetters(t)

\* C3: has_answer_content returns true exactly when the text has a digit
\* and one of the answer patterns; no digit gives false, a digit with no
\* pattern gives false.
C3_AnswerContent ==
    HasAnswerReturned =>
        /\ has_answer <=> (C3_HasDigit(user_input) /\ C3_Pattern(user_input))
        /\ ~C3_HasDigit(user_input) => ~has_answer
        /\ (C3_HasDigit(user_input) /\ ~C3_Pattern(user_input)) => ~has_answer

\* a text with an answer phrase and no digit was judged to hold no answer
C3_Witness ==
    /\ HasAnswerReturned
    /\ C3_Pattern(user_input)
    /\ ~C3_HasDigit(user_input)
    /\ ~has_answer

-----------------------------------------------------------------------------
(* Claims about the scores of detect_mode                                  *)

\* the text has 'i got', then whitespace, then one of the help-seeking
\* phrases, as whole words
Cancels(t) ==
    \E i \in 1..Len(t) :
        /\ LitAt(t, i, <<"i"," ","g","o","t">>)
        /\ At(t, i - 1) \notin WordChars
        /\ \E n \in 1..(Len(t) - i) :
              /\ \A k \in (i + 5)..(i + 4 + n) : At(t, k) \in Whitespace
              /\ \E w \in { <<"c","o","n","f","u","s","e","d">>, <<"s","t","u","c","k">>, <<"n","o"," ","i","d","e","a">>, <<"l","o","s","t">>, <<"a"," ","q","u","e","s","t","i","o","n">> } :
                    /\ LitAt(t, i + 5 + n, w)
                    /\ At(t, i + 5 + n + Len(w)) \notin WordChars

\* the number of hint signals and of concept signals of the text
HintSignals(t) ==
      CountMatches(t, hint_patterns)
    + B2N(SearchNumberUnits(t)) + B2N(SearchEqualsNumber(t)) + B2N(SearchArithmetic(t))
ConceptSignals(t) ==
    B2N(EndsWith(t, <<"?">>)) + CountMatches(t, concept_patterns)

\* C15: when the lower-cased text has 'i got' followed by whitespace and one
\* of 'confused', 'stuck', 'no idea', 'lost', 'a question', hint_score is
\* its hint signals less exactly 1 and concept_score its concept signals
\* plus 1, and neither is changed otherwise; a text whose only signal is
\* such a phrase is classified CONCEPT_EXPLANATION.
C15_Cancellation ==
    DetectModeReturned =>
        \E t \in {NormalizedText(user_input)} :
            \E c \in {B2N(Cancels(t))}, h \in {HintSignals(t)}, k \in {ConceptSignals(t)} :
                /\ hint_score = h - c
                /\ concept_score = k + c
                /\ (c = 1 /\ h = 1 /\ k = 0) => detected_mode = "CONCEPT_EXPLANATION"

\* 'I got stuck on derivatives' was classified CONCEPT_EXPLANATION on the
\* scores 0 and 1
C15_Witness ==
    /\ DetectModeReturned
    /\ user_input = StuckOnDerivatives
    /\ hint_score = 0
    /\ concept_score = 1
    /\ detected_mode = "CONCEPT_EXPLANATION"

\* a numeral immediately followed by a letter
UnitsImmediate(t) ==
    \E i \in 1..Len(t) : t[i] \in Digits /\ At(t, i + 1) \in Letters

\* a numeral followed by a letter, with or without whitespace in between
UnitsSpaced(t) ==
    \E i \in 1..Len(t) :
        /\ t[i] \in Digits
        /\ \E n \in 0..(Len(t) - i) :
              /\ \A k \in (i + 1)..(i + n) : t[k] \in Whitespace
              /\ At(t, i + n + 1) \in Letters

\* the hint signals of the text other than the number with units, with the
\* cancellation
OtherHintScore(t) ==
      CountMatches(t, hint_patterns) - B2N(Cancels(t))
    + B2N(SearchEqualsNumber(t)) + B2N(SearchArithmetic(t))

\* C16 as claimed: the number-with-units signal adds 1 to hint_score
\* exactly when the text has a numeral immediately followed by a letter; a
\* numeral separated from the next word by whitespace adds nothing.
C16_UnitsImmediateOnly ==
    DetectModeReturned =>
        \E t \in {NormalizedText(user_input)} :
            hint_score = OtherHintScore(t) + B2N(UnitsImmediate(t))

\* C16 as amended: the number-with-units signal adds 1 to hint_score
\* exactly when the text has a numeral followed, after whitespace or none,
\* by a letter; '50 wrong', '5 is' and '50 N' add as '50kg' does.
C16_UnitsAfterWhitespace ==
    DetectModeReturned =>
        \E t \in {NormalizedText(user_input)} :
            hint_score = OtherHintScore(t) + B2N(UnitsSpaced(t))

\* 'The result is 50 N' was classified HINT on its number and unit alone,
\* a blank apart
C16_Witness ==
    /\ DetectModeReturned
    /\ user_input = ResultWithUnit
    /\ ~UnitsImmediate(NormalizedText(user_input))
    /\ OtherHintScore(NormalizedText(user_input)) = 0
    /\ hint_score = 1
    /\ detected_mode = "HINT"

\* C17: hint_score and concept_score are never negative, at the decision
\* of detect_mode included, and also when the cancellation has subtracted
\* from hint_score.
C17_ScoresNonNegative ==
    /\ hint_score \in Nat
    /\ concept_score \in Nat

\* the cancellation subtracted from a hint_score of 1 and left it at 0
C17_Witness ==
    /\ DetectModeReturned
    /\ Cancels(NormalizedText(user_input))
    /\ HintSignals(NormalizedText(user_input)) = 1
    /\ hint_score = 0
    /\ concept_score > 0

-----------------------------------------------------------------------------
(* Claims about the result of detect_mode                                  *)

\* the values detect_mode returns; "None" stands for Python's None
ModeValues == {"HINT", "CONCEPT_EXPLANATION", "None"}

\* C18: detect_mode is total: on every text, the empty one and texts with
\* characters outside ASCII included, a call of it ends by returning, never
\* by raising, and what it returns is one of 'HINT', 'CONCEPT_EXPLANATION'
\* and None.
C18_Total ==
    op = "detect_mode" => (pc = "done" /\ detected_mode \in ModeValues)

\* the call returned on a text with characters outside ASCII
C18_Witness ==
    /\ DetectModeReturned
    /\ user_input = NonAsciiWork
    /\ detected_mode = "HINT"

\* the text is empty or has whitespace only
OnlyWhitespace(t) == \A i \in DOMAIN t : t[i] \in Whitespace

\* C19: on every empty or whitespace-only text detect_mode returns None.
C19_BlankIsNone ==
    (DetectModeReturned /\ OnlyWhitespace(user_input)) => detected_mode = "None"

\* the call returned None on three blanks
C19_Witness ==
    /\ DetectModeReturned
    /\ user_input = <<" ", " ", " ">>
    /\ detected_mode = "None"

-----------------------------------------------------------------------------
(* Claims about SocraticHintGeneratorTool.use                              *)

HintCalled   == op = "hint.use"
HintReturned == op = "hint.use" /\ pc = "done"

\* the returned string contains 'ERROR' and names the field
ErrorNaming(out, field, fieldChars) ==
    /\ OutputContains(out, "ERROR", <<"E","R","R","O","R">>)
    /\ OutputContains(out, field, fieldChars)

\* the returned string reports missing fields
MissingFieldReport(out) ==
    \E i \in DOMAIN out : out[i] = Lit(": Missing required fields: ")

\* C6: in CONCEPT_EXPLANATION mode an empty or missing CONCEPT, and in HINT
\* mode an empty or missing PROBLEM, makes use() return an error that
\* contains 'ERROR' and names the field; with the mode's required field
\* non-empty no missing-field error is returned.
C6_ModeAwareRequired ==
    HintCalled =>
        /\ (parsed.mode = "CONCEPT_EXPLANATION" /\ parsed.concept = <<>>)
              => (pc = "done" /\ ErrorNaming(tool_output, "CONCEPT", F_CONCEPT))
        /\ (parsed.mode = "HINT" /\ parsed.problem = <<>>)
              => (pc = "done" /\ ErrorNaming(tool_output, "PROBLEM", F_PROBLEM))
        /\ (parsed.mode = "CONCEPT_EXPLANATION" /\ parsed.concept # <<>>)
              => ~MissingFieldReport(tool_output)
        /\ (parsed.mode = "HINT" /\ parsed.problem # <<>>)
              => ~MissingFieldReport(tool_output)

\* a concept request with a CONCEPT and no PROBLEM was answered, not rejected
C6_Witness ==
    /\ HintReturned
    /\ parsed.mode = "CONCEPT_EXPLANATION"
    /\ parsed.concept # <<>>
    /\ parsed.problem = <<>>
    /\ tool_output # <<>>
    /\ ~MissingFieldReport(tool_output)

\* a hint was generated: use() returned 'COMPLETE HINT (Level n ...'
HintGenerated ==
    /\ HintReturned
    /\ Len(tool_output) >= 3
    /\ tool_output[1] = Lit("COMPLETE HINT")

\* the level the generated hint reports
ReportedLevel == tool_output[3].t

\* the segments of the record that carry the field
FieldSegments(input, name) ==
    SelectSeq(Split(input), LAMBDA raw : HasPrefix(Upper(Strip(raw)), name))

\* what FieldText gives for a field no segment carries; no text, whose
\* elements are single characters
Absent == << "absent" >>

\* the text of the field: what follows 'NAME:' in its last segment, trimmed;
\* Absent when no segment carries the field
FieldText(input, name) ==
    \* the singleton sets bind the segments and the last of them
    CHOOSE text \in UNION { IF segs = <<>> THEN {Absent}
                            ELSE { Strip(SubSeq(last, Len(name) + 2, Len(last))) :
                                      last \in {Strip(segs[Len(segs)])} } :
                            segs \in {FieldSegments(input, name)} } : TRUE

\* the field is present in the record
Present(input, name) == FieldText(input, name) # Absent

\* the text is an integer numeral: an optional sign and decimal digits
IsNumeral(text) ==
    /\ text # Absent
    /\ \E sign \in { <<>>, <<"+">>, <<"-">> } :
          \E n \in 1..Len(text) :
             /\ Len(text) = Len(sign) + n
             /\ SubSeq(text, 1, Len(sign)) = sign
             /\ \A i \in (Len(sign) + 1)..Len(text) : text[i] \in Digits

\* the severity table of the specification, on the severity in force
SeverityDefault(severity) ==
    CASE Upper(severity) = <<"C","R","I","T","I","C","A","L">> -> 2
      [] Upper(severity) = <<"M","A","J","O","R">>    -> 2
      [] Upper(severity) = <<"M","I","N","O","R">>    -> 3
      [] OTHER                          -> 2

\* C7: with a HINT_LEVEL that parses as an integer the level used is that
\* integer clamped to 1..4 (10 gives 4, 0 and -1 give 1); a HINT_LEVEL that
\* is absent or no integer ('abc', '2.5', empty) is ignored and the
\* severity default is used; the level every generated hint reports is in
\* 1..4.
C7_EffectiveLevel ==
    HintGenerated =>
        \E text \in {FieldText(tool_input, F_HINT_LEVEL)} :
            /\ IsNumeral(text) =>
                  \E n \in {IntValue(text)} :
                     /\ (n > 4) => hint_level = 4
                     /\ (n < 1) => hint_level = 1
                     /\ (n \in 1..4) => hint_level = n
                     /\ (text = <<"1","0">>) => hint_level = 4
                     /\ (text \in { <<"0">>, <<"-","1">> }) => hint_level = 1
            /\ ~IsNumeral(text) => hint_level = SeverityDefault(parsed.severity)
            /\ (text \in { Absent, <<"a","b","c">>, <<"2",".","5">>, <<>> })
                  => hint_level = SeverityDefault(parsed.severity)
            /\ hint_level \in 1..4
            /\ ReportedLevel = IntChars(hint_level)

\* a hint was generated for HINT_LEVEL: 10 and reports level 4
C7_Witness ==
    /\ HintGenerated
    /\ FieldText(tool_input, F_HINT_LEVEL) = <<"1","0">>
    /\ ReportedLevel = <<"4">>

\* no HINT_LEVEL override is in force
NoOverride(input) == ~IsNumeral(FieldText(input, F_HINT_LEVEL))

\* C8: with no HINT_LEVEL override, a SEVERITY equal without regard to case
\* to CRITICAL gives level 2, MAJOR 2, MINOR 3, any other value 2.
C8_SeverityTable ==
    (HintGenerated /\ NoOverride(tool_input)) =>
        \E text \in {FieldText(tool_input, F_SEVERITY)} :
            (text # Absent) =>
                \E severity \in {Upper(text)} :
                   /\ (severity = <<"C","R","I","T","I","C","A","L">>) => hint_level = 2
                   /\ (severity = <<"M","A","J","O","R">>) => hint_level = 2
                   /\ (severity = <<"M","I","N","O","R">>) => hint_level = 3
                   /\ (severity \notin { <<"C","R","I","T","I","C","A","L">>, <<"M","A","J","O","R">>, <<"M","I","N","O","R">> })
                         => hint_level = 2

\* a hint for 'severity: minor' with no override was generated at level 3
C8_Witness ==
    /\ HintGenerated
    /\ FieldText(tool_input, F_SEVERITY) = <<"m","i","n","o","r">>
    /\ NoOverride(tool_input)
    /\ hint_level = 3

\* C9 as claimed: with no SEVERITY segment and no HINT_LEVEL override the
\* hint level used is 2.
C9_UnspecifiedIsTwo ==
    (HintGenerated /\ ~Present(tool_input, F_SEVERITY) /\ NoOverride(tool_input))
        => hint_level = 2

\* C9 as amended: with no SEVERITY segment the severity is the default
\* 'Minor', and with no HINT_LEVEL override the hint level used is 3.
C9_UnspecifiedIsMinor ==
    (HintGenerated /\ ~Present(tool_input, F_SEVERITY) /\ NoOverride(tool_input))
        => (parsed.severity = <<"M","i","n","o","r">> /\ hint_level = 3 /\ ReportedLevel = <<"3">>)

\* a hint was generated for a record with no SEVERITY and no override
C9_Witness ==
    /\ HintGenerated
    /\ ~Present(tool_input, F_SEVERITY)
    /\ NoOverride(tool_input)
    /\ hint_level = 3

-----------------------------------------------------------------------------
(* Claims about the required fields of the other two tools                 *)

DiagCalled   == op = "diag.use"
SafetyCalled == op = "safety.use"

\* the field is missing from the record, or empty after trimming
Missing(input, name) == FieldText(input, name) \in { Absent, <<>> }

\* the required fields of a work-analysis record, in declared order
DiagRequired     == << F_PROBLEM, F_STUDENT_WORK, F_TOPIC >>
DiagRequiredName == << "PROBLEM", "STUDENT_WORK", "TOPIC" >>

\* C4: a work-analysis record in which PROBLEM, STUDENT_WORK or TOPIC is
\* missing or empty after trimming makes use() return an error that
\* contains 'ERROR' and names the first such field in declared order.
C4_FirstMissingNamed ==
    DiagCalled =>
        \A k \in DOMAIN DiagRequired :
            (/\ Missing(tool_input, DiagRequired[k])
             /\ \A j \in 1..(k - 1) : ~Missing(tool_input, DiagRequired[j]))
                => /\ pc = "done"
                   /\ ErrorNaming(tool_output, DiagRequiredName[k], DiagRequired[k])

\* the returned string is a verdict
IsVerdict(out) == out # <<>> /\ out[1] \in { Lit("SAFE"), Lit("UNSAFE") }

\* C5: a safety-validation record whose PROPOSED_RESPONSE is missing or
\* empty makes use() return an error that contains 'ERROR' and names
\* PROPOSED_RESPONSE, and no SAFE or UNSAFE verdict.
C5_ProposedResponseRequired ==
    (SafetyCalled /\ Missing(tool_input, F_PROPOSED_RESPONSE)) =>
        /\ pc = "done"
        /\ ErrorNaming(tool_output, "PROPOSED_RESPONSE", F_PROPOSED_RESPONSE)
        /\ ~IsVerdict(tool_output)

-----------------------------------------------------------------------------
(* Claims about the round trip through build_tool_input and a tool         *)

\* the keys a tool reads into text locals
SchemaOf(name) ==
    CASE name = "diag.use"   -> { F_PROBLEM, F_STUDENT_WORK, F_TOPIC }
      [] name = "hint.use"   -> { F_PROBLEM, F_STUDENT_WORK, F_TOPIC }
      [] name = "safety.use" -> { F_PROBLEM, F_CORRECT_ANSWER, F_PROPOSED_RESPONSE }
      [] OTHER               -> {}

\* the local a tool read the key into
ParsedValue(key) ==
    CASE key = F_PROBLEM           -> parsed.problem
      [] key = F_STUDENT_WORK      -> parsed.student_work
      [] key = F_TOPIC             -> parsed.topic
      [] key = F_CORRECT_ANSWER    -> parsed.correct_answer
      [] key = F_PROPOSED_RESPONSE -> parsed.proposed_response

\* a tool parsed the serialized record of its own schema, every value of
\* which is populated and free of '|||'
RoundTripped ==
    /\ fields # <<>>
    /\ op \in {"diag.use", "hint.use", "safety.use"}
    /\ \A i \in DOMAIN fields :
          /\ fields[i][1] \in SchemaOf(op)
          /\ fields[i][2] # <<>>
          /\ ~Contains(fields[i][2], Delim)

Trimmed(value) == Strip(value) = value

\* C10 as claimed: parsing the serialized record yields exactly the
\* original field values.
C10_RoundTrip ==
    RoundTripped =>
        \A i \in DOMAIN fields : ParsedValue(fields[i][1]) = fields[i][2]

\* C10 as amended: parsing the serialized record yields each original field
\* value trimmed of leading and trailing whitespace, so exactly the original
\* values when none of them starts or ends with whitespace.
C10_RoundTripTrimmed ==
    RoundTripped =>
        /\ \A i \in DOMAIN fields : ParsedValue(fields[i][1]) = Strip(fields[i][2])
        /\ (\A i \in DOMAIN fields : Trimmed(fields[i][2]))
              => \A i \in DOMAIN fields : ParsedValue(fields[i][1]) = fields[i][2]

\* a record with colons and a field name inside its values came back whole
C10_Witness ==
    /\ RoundTripped
    /\ op = "diag.use"
    /\ fields[1][2] = <<"T","O","P","I","C",":"," ","g">>
    /\ fields[2][2] = <<"2",":","3">>
    /\ \A i \in DOMAIN fields : Trimmed(fields[i][2])
    /\ \A i \in DOMAIN fields : ParsedValue(fields[i][1]) = fields[i][2]

-----------------------------------------------------------------------------
(* Claims about the parsing of a record                                    *)

\* the segments of a record: the pieces between the '|||', each trimmed
RECURSIVE TrimAll(_)
TrimAll(raw) ==
    IF raw = <<>> THEN <<>> ELSE << Strip(Head(raw)) >> \o TrimAll(Tail(raw))

\* the segment begins with the field name, in either case, and a colon
BeginsWith(segment, name) ==
    /\ Len(segment) > Len(name)
    /\ segment[Len(name) + 1] = ":"
    /\ Upper(SubSeq(segment, 1, Len(name))) = name

\* everything after the colon that ends the field name, trimmed
AfterName(segment, name) ==
    Strip(SubSeq(segment, Len(name) + 2, Len(segment)))

\* the local is what the segments give for the field: the text after the
\* colon that ends 'NAME:' in the last segment that begins with it, and the
\* empty default when no segment begins with it
ReadAsWritten(segments, name, local) ==
    \E carriers \in {{ i \in DOMAIN segments : BeginsWith(segments[i], name) }} :
        local = IF carriers = {} THEN <<>>
                ELSE AfterName(segments[CHOOSE i \in carriers :
                                           \A j \in carriers : j <= i], name)

\* C11: a segment is cut once, at the colon that ends its field-name
\* prefix: each local of the work-analysis tool is everything after that
\* colon, trimmed, further colons and field names inside the value included
\* ('STUDENT_WORK: The ratio is 2:3' gives 'The ratio is 2:3'), and a field
\* name inside another segment's value does not change the field read from
\* its own segment ('PROBLEM: Explain TOPIC: gravity').
C11_SplitOnce ==
    DiagCalled =>
        \E raw \in {Split(tool_input)} :
            Len(raw) >= 3 =>
                \E segments \in {TrimAll(raw)} :
                    /\ ReadAsWritten(segments, F_PROBLEM, parsed.problem)
                    /\ ReadAsWritten(segments, F_STUDENT_WORK, parsed.student_work)
                    /\ ReadAsWritten(segments, F_TOPIC, parsed.topic)

\* a record with both values of the tests was parsed: the ratio came back whole, and
\* the TOPIC inside the PROBLEM left the TOPIC segment's value in place
C11_Witness ==
    /\ DiagCalled
    /\ tool_input = Join(<< Segment(F_PROBLEM, TopicInProblem),
                            Segment(F_STUDENT_WORK, RatioWork),
                            Segment(F_TOPIC, <<"a","l","g","e","b","r","a">>) >>, Padded)
    /\ parsed.problem = TopicInProblem
    /\ parsed.student_work = RatioWork
    /\ parsed.topic = <<"a","l","g","e","b","r","a">>

\* the segment begins with a field name of the work-analysis schema
DiagKnown(segment) ==
    \/ BeginsWith(segment, F_PROBLEM)
    \/ BeginsWith(segment, F_STUDENT_WORK)
    \/ BeginsWith(segment, F_TOPIC)

\* the returned string rejects the record: the format error of the
\* work-analysis tool or a missing-field error
Rejected(out) ==
    \/ out = InvalidFormatError
    \/ MissingFieldReport(out)

\* C12: a segment that begins with no field name of the schema is dropped
\* without a report: use() of the work-analysis tool, once through its
\* loop, does not reject the record, and its locals are those the record
\* without such segments gives.  A '|||' inside the student's text thus cuts
\* the field short ('I tried a ||| b approach' is read as 'I tried a') and
\* nothing reports it.
C12_UnknownDiscarded ==
    DiagCalled =>
        \E raw \in {Split(tool_input)} :
            (Len(raw) >= 3 /\ \E i \in DOMAIN raw : ~DiagKnown(Strip(raw[i]))) =>
                /\ pc = "done"
                /\ ~Rejected(tool_output)
                /\ parsed = DiagParseLoop(DiagDefaults,
                                SelectSeq(raw, LAMBDA part : DiagKnown(Strip(part))))

\* the record of the test was analysed with the student's work cut at its
\* '|||'
C12_Witness ==
    /\ DiagCalled
    /\ tool_input = Join(<< Segment(F_PROBLEM, <<"S","o","l","v","e"," ","x">>),
                            Segment(F_STUDENT_WORK, TriplePipeWork),
                            Segment(F_TOPIC, <<"a","l","g","e","b","r","a">>) >>, Padded)
    /\ parsed.student_work = <<"I"," ","t","r","i","e","d"," ","a">>
    /\ parsed.problem = <<"S","o","l","v","e"," ","x">>
    /\ parsed.topic = <<"a","l","g","e","b","r","a">>
    /\ tool_output # <<>>
    /\ tool_output[1] = Lit("ANALYSIS COMPLETE")

\* the record, brought to three parts with segments of no known field: the
\* same fields present and absent, and the minimum number of segments
WithMinimumSegments(input) ==
    Join(<< input, Segment(<<"N","O","T","E">>, V_x), Segment(<<"N","O","T","E">>, V_x) >>, Padded)

\* the string is one that use() of the work-analysis tool can return on
\* the record
DiagOutcome(input, out) ==
    \E p \in {DiagParse(input)} :
        \E retriever \in RetrieverOutcomes, llm \in LLMOutcomes, response \in DiagResponses :
            DiagAnalyze(p, retriever, llm, response).out = out

\* C13: a work-analysis record of fewer than three segments fails as a
\* record in which the same required field is absent fails: use() returns
\* what it can return on the record with the same fields and the minimum
\* number of segments, and no error of its own for too few segments.
C13_TooFewFailsAlike ==
    (DiagCalled /\ Len(Split(tool_input)) < 3) =>
        /\ pc = "done"
        /\ DiagOutcome(WithMinimumSegments(tool_input), tool_output)
        /\ tool_output # InvalidFormatError

-----------------------------------------------------------------------------
(* Claims about the errors of the tools                                    *)

\* use() of one of the three tools was called
ToolCalled == op \in {"diag.use", "hint.use", "safety.use"}

\* C14: use() of each of the three tools returns a string and lets no
\* exception out, whatever the record and whether or not the retriever or
\* the LLM raises.
C14_ErrorsAsData ==
    ToolCalled => (pc = "done" /\ tool_output # <<>>)

-----------------------------------------------------------------------------
(* Claims about a session                                                  *)

\* two calls of detect_mode on the same text returned the same value
SameTextSameMode ==
    \A i, j \in DOMAIN classified :
        classified[i].input = classified[j].input
            => classified[i].mode = classified[j].mode

\* a step is a call of detect_mode
DetectStep == pc = "start" /\ pc' = "done" /\ op' = "detect_mode"

-----------------------------------------------------------------------------
(* Claims about the request of process_student_work                        *)

\* rt is the request text built from some problem, this student work and
\* some topic, and nothing else
IsRequestText(rt, work) ==
    /\ Len(rt) = 10
    /\ rt[1] = Lit("PROBLEM: ")
    /\ rt[2].kind = "txt" /\ rt[2].t \in Problems
    /\ rt[3] = Lit("\n\n")
    /\ rt[4] = Lit("STUDENT WORK: ")
    /\ rt[5] = Txt(work)
    /\ rt[6] = Lit("\n\n")
    /\ rt[7] = Lit("TOPIC: ")
    /\ rt[8].kind = "txt" /\ rt[8].t \in Topics
    /\ rt[9] = Lit("\n\n")
    /\ rt[10].kind = "lit"
    /\ rt[10].s \notin {ModeLine, WarningLine, "\n", "\n\n"}

\* the prefix lines: the mode line and, at most, the warning line after it
IsPrefix(pf, mode) ==
    /\ Len(pf) \in {2, 4}
    /\ pf[1] = Lit(ModeLine)
    /\ pf[2] = Lit(mode)
    /\ Len(pf) = 4 => (pf[3] = Lit("\n") /\ pf[4] = Lit(WarningLine))

\* C21: when detect_mode(student_work) is None the request handed to the
\* runner is exactly the request text built from problem, student work and
\* topic, with no prefix; when it is not None the request is the prefix, a
\* blank line, and then that same request text, unmodified.
C21_PrefixOnlyWhenDetected ==
    RequestBuilt =>
        \E mode \in {detect_mode(user_input)} :
            \E n \in {Len(request) - 10} :
                IF mode = "None"
                THEN IsRequestText(request, user_input)
                ELSE /\ n >= 3
                     /\ IsPrefix(SubSeq(request, 1, n - 1), mode)
                     /\ request[n] = Lit("\n\n")
                     /\ IsRequestText(SubSeq(request, n + 1, Len(request)),
                                      user_input)

\* a text that is not blank was classified None and sent without a prefix
C21_Witness ==
    /\ RequestBuilt
    /\ ~IsBlank(user_input)
    /\ detect_mode(user_input) = "None"
    /\ request[1] = Lit("PROBLEM: ")
    /\ request[5] = Txt(user_input)

-----------------------------------------------------------------------------
(* Claims about the way a record is written                                *)

\* the locals a tool's loop ends with on input
LocalsOf(tool, input) ==
    IF tool = "hint.use" THEN HintParse(input)
    ELSE IF tool = "safety.use" THEN SafetyParse(input)
    ELSE DiagParse(input).locals

\* C22: a record is split on the literal '|||' and each segment is trimmed,
\* so the same fields written with ' ||| ', with '|||' and no padding, or
\* with extra whitespace around the delimiters and the record are read to
\* identical field values by a tool.
C22_DelimiterTolerance ==
    ToolCalled =>
        \A style \in RecordStyles :
            LocalsOf(op, WriteRecord(fields, style)) = parsed

\* the safety tool read both values of a record written with '|||' and no
\* padding
C22_Witness ==
    /\ op = "safety.use"
    /\ pc = "done"
    /\ tool_input = <<"P","R","O","B","L","E","M",":"," ","S","o","l","v","e"," ","x",
                       "|","|","|",
                       "C","O","R","R","E","C","T","_","A","N","S","W","E","R",":"," ","5">>
    /\ parsed.problem = <<"S","o","l","v","e"," ","x">>
    /\ parsed.correct_answer = <<"5">>

-----------------------------------------------------------------------------
(* Claims about the verdict of AnswerRevelationAnalyzerTool                *)

\* use() returned a verdict: the LLM answered
VerdictReturned == op = "safety.use" /\ pc = "done" /\ IsVerdict(tool_output)

\* the response the verdict was extracted from (line 163)
Response == tool_output[3].t

\* positions i..j of text are one of its lines
IsLine(text, i, j) ==
    /\ i = 1 \/ text[i - 1] = "\n"
    /\ j = Len(text) \/ text[j + 1] = "\n"
    /\ \A k \in i..j : text[k] # "\n"

\* text has a line with 'VERDICT:' and 'SAFE' and without 'UNSAFE', letter
\* case apart
SafeVerdictLine(text) ==
    \E i \in 1..(Len(text) + 1), j \in 0..Len(text) :
        /\ IsLine(text, i, j)
        /\ \E line \in {Upper(SubSeq(text, i, j))} :
              /\ Contains(line, <<"V","E","R","D","I","C","T",":">>)
              /\ Contains(line, <<"S","A","F","E">>)
              /\ ~Contains(line, <<"U","N","S","A","F","E">>)

\* C23: when the student has not already stated the correct answer, the
\* verdict is SAFE only if the LLM response has a line containing 'VERDICT:'
\* (in any letter case, as the code compares) that contains 'SAFE' and not
\* 'UNSAFE'; for every other response (no verdict line, garbled text, a mere
\* mention of SAFE or UNSAFE) it is UNSAFE.
C23_ConservativeVerdict ==
    (VerdictReturned /\ ~parsed.student_already_answered) =>
        /\ tool_output[1] = Lit("SAFE") => SafeVerdictLine(Response)
        /\ ~SafeVerdictLine(Response) => tool_output[1] = Lit("UNSAFE")

\* a response that mentions SAFE outside a verdict line got UNSAFE
C23_Witness ==
    /\ VerdictReturned
    /\ ~parsed.student_already_answered
    /\ Response = <<"I","t"," ","i","s"," ","S","A","F","E"," ","t","o"," ","s","e","n","d">>
    /\ tool_output[1] = Lit("UNSAFE")

\* some submission kept from the history contains the correct answer, both
\* normalized
StatedCorrectAnswer(student_answers, correct_answer) ==
    \E i \in DOMAIN student_answers :
        Contains(normalize_answer(student_answers[i]), normalize_answer(correct_answer))

\* C24: the safety tool treats the student as having already answered only
\* if some prior submission extracted from STUDENT_HISTORY contains the
\* normalized correct answer; a submission that is merely a fragment of the
\* correct answer ('5' against '50') does not count.
C24_AnsweredOnlyIfStated ==
    (op = "safety.use" /\ parsed.student_already_answered) =>
        StatedCorrectAnswer(parsed.student_answers, parsed.correct_answer)

\* positions i..j of text are a line with 'VERDICT:' and word, letter case
\* apart
VerdictLine(text, i, j, word) ==
    /\ IsLine(text, i, j)
    /\ \E line \in {Upper(SubSeq(text, i, j))} :
          Contains(line, <<"V","E","R","D","I","C","T",":">>) /\ Contains(line, word)

\* the first line of text with a verdict is one with UNSAFE
UnsafeVerdictFirst(text) ==
    \E i \in 1..(Len(text) + 1), j \in 0..Len(text) :
        /\ VerdictLine(text, i, j, <<"U","N","S","A","F","E">>)
        /\ \A m \in 1..i, n \in 0..(i - 2) : ~VerdictLine(text, m, n, <<"S","A","F","E">>)

SafetyGuardForced(req) == PrefixMode(req) = "HINT" \/ HasWarning(req)

\* C26 as claimed: for every student_work with has_answer_content true, the
\* request built by process_student_work either starts with
\* 'PREPROCESSOR DETECTED MODE: HINT' or contains the 'PREPROCESSOR WARNING'
\* line; no such input is sent with no prefix at all.
C26_AnswerContentAlwaysForced ==
    (RequestBuilt /\ has_answer_content(user_input)) => SafetyGuardForced(request)

\* C26: for every student_work with has_answer_content true that detect_mode
\* classifies (HINT or CONCEPT_EXPLANATION), the request either starts with
\* 'PREPROCESSOR DETECTED MODE: HINT' or contains the 'PREPROCESSOR WARNING'
\* line; when detect_mode returns None the request is sent with no prefix at
\* all, answer-like content or not.
C26_AnswerContentForcedWhenClassified ==
    (RequestBuilt /\ has_answer_content(user_input)) =>
        \E mode \in {detect_mode(user_input)} :
            IF mode = "None"
            THEN /\ request[1] = Lit("PROBLEM: ")
                 /\ ~SafetyGuardForced(request)
            ELSE /\ PrefixMode(request) = mode
                 /\ SafetyGuardForced(request)

\* 'The answer is 5' has answer-like content, is classified None and was
\* sent without a prefix
C26_Witness ==
    /\ RequestBuilt
    /\ user_input = <<"T","h","e"," ","a","n","s","w","e","r"," ","i","s"," ","5">>
    /\ has_answer_content(user_input)
    /\ detect_mode(user_input) = "None"
    /\ request[1] = Lit("PROBLEM: ")

-----------------------------------------------------------------------------
(* Claims about the success response of SocraticHintGeneratorTool          *)

\* the MISCONCEPTION field says there is no misconception or that the work
\* is correct: 'none' or 'correct' as a word of its own
SaysNoMisconception(misconception) ==
    \/ SearchWord(Lower(misconception), <<"n","o","n","e">>)
    \/ SearchWord(Lower(misconception), <<"n","o"," ","m","i","s","c","o","n","c","e","p","t","i","o","n">>)
    \/ SearchWord(Lower(misconception), <<"c","o","r","r","e","c","t">>)

\* the MISCONCEPTION field describes an error
DescribesError(misconception) ==
    /\ SearchWord(Lower(misconception), <<"i","n","c","o","r","r","e","c","t">>)
    /\ ~SaysNoMisconception(misconception)

\* C27: in HINT mode with a non-empty PROBLEM, the hint tool returns a
\* 'SUCCESS RESPONSE' only when the MISCONCEPTION field says there is no
\* misconception or the work is correct; a MISCONCEPTION describing an error
\* ('incorrect sign') yields a 'COMPLETE HINT' and never a success
\* confirmation.
C27_SuccessOnlyWhenCorrect ==
    (HintReturned /\ parsed.mode = "HINT" /\ parsed.problem # <<>>) =>
        /\ tool_output[1] = Lit("SUCCESS RESPONSE")
              => SaysNoMisconception(parsed.misconception)
        /\ DescribesError(parsed.misconception)
              => tool_output[1] = Lit("COMPLETE HINT")

-----------------------------------------------------------------------------
(* Claims about the retriever call of StudentWorkAnalyzerTool              *)

\* the calls of retriever.retrieve that use() made
RetrieverCalls == SelectSeq(collab, LAMBDA c : c.callee = "retriever.retrieve")

\* the LLM was asked and raised
LLMFailed ==
    /\ \E i \in DOMAIN collab : collab[i] = InvokeCall
    /\ tool_output = AnalysisFailed(LLMMessage)

\* C28: on a well-formed work-analysis input (PROBLEM, STUDENT_WORK and TOPIC
\* all non-empty) the analyzer queries the retriever exactly once, passing
\* the result count as the parameter top_k = 3, and then (the LLM answering)
\* returns a result starting with 'ANALYSIS COMPLETE'.
C28_RetrieverTopK ==
    (/\ DiagCalled
     /\ parsed.problem # <<>>
     /\ parsed.student_work # <<>>
     /\ parsed.topic # <<>>) =>
        /\ Len(RetrieverCalls) = 1
        /\ RetrieverCalls[1].kw = "top_k"
        /\ tool_output[1] = Lit("ANALYSIS COMPLETE") \/ LLMFailed

-----------------------------------------------------------------------------
(* Claims about a field written more than once                             *)

\* the pairs of the record that carry name
PairsOf(pairs, name) == SelectSeq(pairs, LAMBDA p : p[1] = name)

\* a field name is written in more than one pair of the record
HasDuplicate(pairs) ==
    \E i, j \in DOMAIN pairs : i < j /\ pairs[i][1] = pairs[j][1]

\* the value the last pair with name carries; the tool's default, the empty
\* text, when no pair does
LastWritten(pairs, name) ==
    LET own == PairsOf(pairs, name)
    IN  IF own = <<>> THEN <<>> ELSE own[Len(own)][2]

\* the tool went through its loop over the segments (the work-analysis tool
\* does so from three segments on)
LoopRan == ToolCalled /\ (op = "diag.use" => Len(fields) >= 3)

\* the tool's result is an error that the values read or a collaborator
\* account for: PROBLEM read as empty by the hint tool, a collaborator that
\* raised
ErrorAccountedFor ==
    \/ /\ op = "hint.use"
       /\ tool_output = MissingProblemError
       /\ LastWritten(fields, F_PROBLEM) = <<>>
    \/ tool_output \in {AnalysisFailed(RetrieverMessage), AnalysisFailed(LLMMessage)}

\* C29: when the same known field name appears in more than one segment of
\* a record, the value of the last such segment is the one used: later
\* segments overwrite earlier ones, a non-empty value included when the
\* later one is empty; and no error is reported for it.
C29_LastWins ==
    (LoopRan /\ HasDuplicate(fields)) =>
        /\ parsed.problem = LastWritten(fields, F_PROBLEM)
        /\ op \in {"hint.use", "diag.use"} => parsed.topic = LastWritten(fields, F_TOPIC)
        /\ op = "safety.use" =>
              parsed.correct_answer = LastWritten(fields, F_CORRECT_ANSWER)
        /\ (tool_output # <<>> /\ tool_output[1] = Lit("ERROR")) => ErrorAccountedFor

\* the work-analysis tool read PROBLEM as empty from a record that gives it
\* a value first and none later, and analysed the work
C29_Witness ==
    /\ op = "diag.use"
    /\ fields = << << F_PROBLEM, <<"S","o","l","v","e"," ","x">> >>, << F_TOPIC, <<"a","l","g","e","b","r","a">> >>,
                   << F_PROBLEM, <<>> >> >>
    /\ parsed.problem = <<>>
    /\ parsed.topic = <<"a","l","g","e","b","r","a">>
    /\ tool_output[1] = Lit("ANALYSIS COMPLETE")

-----------------------------------------------------------------------------
(* Claims about the interactive loop                                       *)

\* what the user typed on line k, blanks around it apart
Typed(k) == Strip(entered[k])

\* text begins with word, letter case apart
Begins(text, word) ==
    /\ Len(text) >= Len(word)
    /\ \A i \in DOMAIN word : LowerCh(text[i]) = word[i]

IsQuitLine(text)    == Lower(text) \in { <<"q","u","i","t">>, <<"e","x","i","t">>, <<"q">> }
IsHelpLine(text)    == Lower(text) = <<"h","e","l","p">>
IsTopicLine(text)   == Begins(text, <<"t","o","p","i","c">>)
IsProblemLine(text) == Begins(text, <<"p","r","o","b","l","e","m">>)

\* what follows the command word on a line
TextAfter(text, word) == Strip(SubSeq(text, Len(word) + 1, Len(text)))

\* the problem set by the last 'problem' line among the first k lines;
\* NoneText when there is none
RECURSIVE LastProblemSet(_)
LastProblemSet(k) ==
    IF k = 0 THEN NoneText
    ELSE IF IsProblemLine(Typed(k)) THEN TextAfter(Typed(k), <<"p","r","o","b","l","e","m">>)
    ELSE LastProblemSet(k - 1)

\* the topic set by the last 'topic' line among the first k lines; the
\* topic the loop starts with when there is none
RECURSIVE LastTopicSet(_)
LastTopicSet(k) ==
    IF k = 0 THEN <<"g","e","n","e","r","a","l">>
    ELSE IF IsTopicLine(Typed(k)) THEN TextAfter(Typed(k), <<"t","o","p","i","c">>)
    ELSE LastTopicSet(k - 1)

\* the last line read was handed to process_student_work
Invoked == entered # <<>> /\ op = "process_student_work"

\* the request text at the end of the request handed to the runner
SentText == SubSeq(request, Len(request) - 9, Len(request))

\* C30: after any sequence of lines, process_student_work is invoked only
\* when a non-empty current problem has been set by an earlier 'problem
\* [text]' line, and it is invoked with the most recently set problem and
\* topic and the line just read; empty input, 'help', 'topic ...' and
\* 'problem ...' lines never invoke it, and 'quit', 'exit' or 'q' ends the
\* loop.
C30_LoopInvokesOnWork ==
    entered # <<>> =>
        \E n \in {Len(entered)} : \E last \in {Typed(n)} :
            /\ Invoked =>
                  /\ LastProblemSet(n - 1) \notin { NoneText, <<>> }
                  /\ Len(request) >= 10
                  /\ SentText[2] = Txt(LastProblemSet(n - 1))
                  /\ SentText[5] = Txt(last)
                  /\ SentText[8] = Txt(LastTopicSet(n - 1))
            /\ (\/ last = <<>>
                \/ IsHelpLine(last)
                \/ IsTopicLine(last)
                \/ IsProblemLine(last)) => ~Invoked
            /\ IsQuitLine(last) => (pc = "ended" /\ ~Invoked)

\* a topic and two problems were set, and the work typed next was handed
\* over with the second problem and that topic
C30_Witness ==
    /\ entered = << <<"t","o","p","i","c"," ","a","l","g","e","b","r","a">>, <<"p","r","o","b","l","e","m"," ","S","o","l","v","e"," ","x">>, <<"P","R","O","B","L","E","M"," ","F","=","m","a"," ">>,
                    <<"x"," ","="," ","7">> >>
    /\ Invoked
    /\ pc = "loop"
    /\ SentText[2] = Txt(<<"F","=","m","a">>)
    /\ SentText[5] = Txt(<<"x"," ","="," ","7">>)
    /\ SentText[8] = Txt(<<"a","l","g","e","b","r","a">>)

====
